---- MODULE Spec2Model ----
(***************************************************************************)
(* Genetic counterfactual search with declarative conformance              *)
(* (dice_ml/explainer_interfaces/dice_genetic_conformance.py).             *)
(*                                                                         *)
(* Real numbers are fixed point.  Losses, scores and penalties are         *)
(* integers in units of 1/One.  Continuous feature values are integers in  *)
(* units of 1/CUnit.  Categorical features hold the encoder's codes.       *)
(***************************************************************************)
EXTENDS Integers, Sequences, FiniteSets, TLC

VARIABLES
    pc,                    \* position in _generate_counterfactuals / find_counterfactuals
    x1,                    \* self.x1, the query instance
    features_to_vary,
    mdl,                   \* the trained model behind self.model
    desired_class,
    checkers,              \* d4py.model.checkers, as left by filter_declare_model
    population_size,       \* self.population_size
    total_CFs,             \* self.total_CFs
    maxiterations,
    thresh,
    conformance_penalty,
    activity_origin_position,
    population,            \* population; at "INITIALIZED" the copy of self.cfs
    iterations,
    previous_best_loss,
    current_best_loss,
    stop_cnt,
    cfs_preds,             \* predictions of the elites; after the loop self.cfs_preds
    new_generation_1,
    new_generation_2,
    conformance_score,     \* self.conformance_score
    final_cfs,             \* self.final_cfs
    self_cfs_preds,        \* self.cfs_preds, the prediction recorded for each row of final_cfs
    scanned,               \* Result Selector: the index i of its scan
    optimization,          \* the optimization argument, "unread" until line 817 reads it
    ret                    \* value returned by a function applied on its own

config == <<x1, features_to_vary, mdl, desired_class, checkers, population_size,
            total_CFs, maxiterations, thresh, conformance_penalty, activity_origin_position>>
loopvars == <<population, iterations, previous_best_loss, current_best_loss, stop_cnt,
              cfs_preds, new_generation_1, new_generation_2, conformance_score>>
result == <<final_cfs, self_cfs_preds, scanned, optimization>>
vars == <<pc, config, loopvars, result, ret>>

----------------------------------------------------------------------------
(* Bounds of the model. *)
MaxCFs == 2          \* largest number of counterfactuals requested (DiverseCF)
MaxRandomInits == 1  \* largest number of counterfactuals requested under RandomInitCF
PopFactor == 2       \* population_size = PopFactor * total_CFs; the program's factor is 15
MaxIter == 8         \* largest maxiterations
MaxCase == 2         \* largest population handed to the conformance scorer on its own
MaxInitCFs == 3      \* largest request when the Population Initializer is run on its own
MaxRows == 3         \* largest population handed to np.unique on its own
MaxBatches == 4      \* sampling batches of do_random_init followed before it counts as looping

(* Fixed point units. *)
One == 16 * 9        \* the real number 1.0 in losses and scores
CUnit == 1 + 1       \* the real number 1.0 in a continuous feature

(* Program constants. *)
StopLimit == 5       \* if stop_cnt >= 5: break

----------------------------------------------------------------------------
(* Generic helpers. *)
Abs(a) == IF a < 0 THEN -a ELSE a
MaxOf(S) == CHOOSE m \in S : \A s \in S : s <= m
MinOf(S) == CHOOSE m \in S : \A s \in S : m <= s
Range(s) == {s[i] : i \in DOMAIN s}

RECURSIVE SumSeq(_)
SumSeq(s) == IF s = <<>> THEN 0 ELSE Head(s) + SumSeq(Tail(s))

(* Lexicographic order on equal-length rows. *)
RECURSIVE LexLess(_, _)
LexLess(a, b) ==
    IF a = <<>> \/ b = <<>> THEN FALSE
    ELSE IF Head(a) # Head(b) THEN Head(a) < Head(b)
    ELSE LexLess(Tail(a), Tail(b))

(* The rows of a set in ascending lexicographic order. *)
RECURSIVE SortRows(_)
SortRows(S) ==
    IF S = {} THEN <<>>
    ELSE LET m == CHOOSE r \in S : \A o \in S : o = r \/ LexLess(r, o)
         IN  <<m>> \o SortRows(S \ {m})

(* A deduplication that compares the integer parts of the values only. *)
np_unique_truncating(rows) ==
    SortRows({[j \in DOMAIN r |-> IF j = 1 THEN r[j] - (r[j] % CUnit) ELSE r[j]] : r \in Range(rows)})

(* np.unique(rows, axis=0): the distinct rows, sorted lexicographically. *)
np_unique(rows) == SortRows(Range(rows))

----------------------------------------------------------------------------
(* Data interface: schema and ranges. *)
feature_names == <<"amount", "prefix_1", "prefix_2">>
number_of_features == Len(feature_names)
continuous_feature_names == {"amount"}
categorical_feature_names == {"prefix_1", "prefix_2"}
continuous_feature_indexes == {j \in DOMAIN feature_names : feature_names[j] \in continuous_feature_names}
categorical_feature_indexes == {j \in DOMAIN feature_names : feature_names[j] \in categorical_feature_names}
IsPrefix(feat_name) == feat_name \in {"prefix_1", "prefix_2"}   \* 'prefix' in feat_name

(* The natural range of the continuous feature in the training data, and the *)
(* narrower interval permitted_range leaves in self.feature_range.           *)
natural_range == [amount |-> <<0, 2 * CUnit>>]
feature_range ==
    [amount |-> <<1 * CUnit, 2 * CUnit>>, prefix_1 |-> {1, 2}, prefix_2 |-> {1, 2}]

InRange(feat, v) == feature_range[feat][1] <= v /\ v <= feature_range[feat][2]
Grid(lo, hi) == lo..hi                 \* the reals of [lo, hi] the model distinguishes

(* np.round(v, 0) on a value in units of 1/CUnit: nearest integer, ties to even. *)
np_round(v) ==
    LET q == v \div CUnit
        r == v % CUnit
    IN  IF 2 * r < CUnit THEN q * CUnit
        ELSE IF 2 * r > CUnit THEN (q + 1) * CUnit
        ELSE IF q % 2 = 0 THEN q * CUnit ELSE (q + 1) * CUnit

(* np.asarray(v, dtype='int') on a non-negative value: truncation. *)
as_int(v) == v \div CUnit

(* Encoder: label dictionary of the activity columns. *)
label_dict == [approve |-> 1, review |-> 2]
Labels == DOMAIN label_dict
decode(code) == IF \E l \in Labels : label_dict[l] = code
                THEN CHOOSE l \in Labels : label_dict[l] = code
                ELSE "0"

Individuals ==
    {<<a, p1, p2>> : a \in Grid(natural_range.amount[1], natural_range.amount[2]),
                     p1 \in 0..2, p2 \in 0..2}

----------------------------------------------------------------------------
(* Model interface.  Three trained models stand behind self.model: two     *)
(* binary classifiers with two output nodes and one regressor.             *)
Models == {"clf_amount", "clf_prefix", "reg_amount"}
model_type(m) == IF m = "reg_amount" THEN "Regressor" ELSE "Classifier"
num_output_nodes == 1 + 1
desired_range == <<(3 * One) \div 2, 2 * One>>      \* regression: [1.5, 2.0]

(* self.model.get_output(x): class scores [N, C] of a classifier, the      *)
(* predicted value of a regressor.                                         *)
get_output(m, x) ==
    CASE m = "clf_amount" ->
            IF x[1] >= 2 * CUnit THEN <<0, One>>
            ELSE IF x[1] >= CUnit /\ x[2] = 1 THEN <<One \div 2, One \div 2>>
            ELSE <<One, 0>>
      [] m = "clf_prefix" ->
            IF x[2] = 2 THEN <<0, One>>
            ELSE IF x[2] = 1 /\ x[1] >= 2 * CUnit THEN <<One \div 2, One \div 2>>
            ELSE <<One, 0>>
      [] OTHER -> (x[1] * One) \div CUnit

predict_fn_scores(m, x) == get_output(m, x)

(* np.argmax: the first index holding the maximum (classes count from 0). *)
np_argmax(scores) ==
    (CHOOSE i \in DOMAIN scores :
        /\ \A k \in DOMAIN scores : scores[k] <= scores[i]
        /\ \A k \in DOMAIN scores : k < i => scores[k] < scores[i]) - 1

(* self.model.get_output(x, model_score=False): the hard label or the value. *)
predict_fn(m, x) ==
    IF model_type(m) = "Classifier" THEN np_argmax(get_output(m, x)) ELSE get_output(m, x)

(* misc_init with desired_class="opposite" on a binary classifier. *)
misc_init(m, query_instance) ==
    IF model_type(m) = "Classifier" THEN 1 - predict_fn(m, query_instance) ELSE 1

(* Prediction of the class whose score equals the maximum, the desired class first. *)
ArgmaxPreferDesired(scores, desired) ==
    IF scores[desired + 1] = MaxOf(Range(scores)) THEN desired ELSE np_argmax(scores)

predict_fn_custom(m, x, desired) == ArgmaxPreferDesired(get_output(m, x), desired)

(* Validity predicate of section 4.2 (ExplainerBase.is_cf_valid). *)
is_cf_valid(m, desired, predictions) ==
    IF model_type(m) = "Classifier"
    THEN predictions[desired + 1] = MaxOf(Range(predictions))
    ELSE desired_range[1] <= predictions /\ predictions <= desired_range[2]

----------------------------------------------------------------------------
(* Loss weights as update_hyperparameters receives them by default. *)
proximity_weight == One \div 2
sparsity_weight == One \div 2
plausibility_weight == One \div 2
conformance_weight == 3 * One

(* Reference dataset of the data interface (feature columns). *)
data_df ==
    << <<2 * CUnit, 1, 1>>, <<2 * CUnit, 2, 1>>, <<2 * CUnit, 1, 2>>, <<2 * CUnit, 2, 2>>,
       <<CUnit, 1, 2>>, <<0, 1, 1>>, <<CUnit, 2, 1>>, <<0, 2, 2>> >>

compute_yloss(m, x, desired) ==
    IF model_type(m) = "Classifier"
    THEN LET predicted_value == predict_fn_scores(m, x)
             maxvalue == MaxOf({predicted_value[c + 1] : c \in (0..(num_output_nodes - 1)) \ {desired}})
         IN  MaxOf({0, maxvalue - predicted_value[desired + 1]})
    ELSE LET predicted_value == predict_fn(m, x)
         IN  IF desired_range[1] <= predicted_value /\ predicted_value <= desired_range[2]
             THEN 0
             ELSE MinOf({Abs(predicted_value - desired_range[1]),
                         Abs(predicted_value - desired_range[2])})

(* normalize_data of the data interface: min-max scaling on the natural range. *)
normalize(j, v) ==
    LET r == natural_range[feature_names[j]]
    IN  ((v - r[1]) * One) \div (r[2] - r[1])

(* Weighted L1 distance of the normalized continuous features, all weights 1. *)
compute_proximity_loss(x, query_instance) ==
    LET idx == continuous_feature_indexes
        total == SumSeq([k \in 1..number_of_features |->
                    IF k \in idx THEN Abs(normalize(k, x[k]) - normalize(k, query_instance[k])) ELSE 0])
    IN  total \div Cardinality(idx)

(* np.asarray(., dtype='int') of one feature value. *)
IntOf(j, v) == IF j \in continuous_feature_indexes THEN as_int(v) ELSE v

NonzeroIntDiff(x, query_instance) ==
    Cardinality({j \in DOMAIN feature_names : IntOf(j, x[j]) - IntOf(j, query_instance[j]) # 0})

(* A sparsity loss that compares the values themselves, fractions included. *)
compute_sparsity_loss_exact(x, query_instance) ==
    (Cardinality({j \in DOMAIN feature_names : x[j] # query_instance[j]}) * One) \div Len(feature_names)

(* compute_sparsity_loss, lines 533-537. *)
compute_sparsity_loss(x, query_instance) ==
    (NonzeroIntDiff(x, query_instance) * One) \div Len(feature_names)

(* Mixed distance: cityblock on the continuous columns, Hamming on the categorical. *)
distance_mh(a, b) ==
    LET nbr_features == number_of_features
        cityblock == SumSeq([k \in 1..nbr_features |->
                        IF k \in continuous_feature_indexes THEN Abs(a[k] - b[k]) ELSE 0])
        differing == Cardinality({k \in categorical_feature_indexes : a[k] # b[k]})
        ncont == Cardinality(continuous_feature_indexes)
    IN  (ncont * cityblock * One) \div (CUnit * Len(a) * nbr_features)
        + (differing * One) \div nbr_features

(* The dataset row nearest to the query instance (first on ties). *)
closest(query_instance) ==
    LET d(i) == distance_mh(query_instance, data_df[i])
        i0 == CHOOSE i \in DOMAIN data_df :
                 /\ \A k \in DOMAIN data_df : d(i) <= d(k)
                 /\ \A k \in DOMAIN data_df : k < i => d(i) < d(k)
    IN  data_df[i0]

compute_plausibility(x, query_instance) == distance_mh(closest(query_instance), x)

(* update_hyperparameters, lines 60-69: the weights the explainer stores. *)
update_hyperparameters(pw, sw, plw, dw, cp, cw) ==
    [proximity_weight |-> pw, sparsity_weight |-> sw, diversity_weight |-> dw,
     plausibility_weight |-> plw, categorical_penalty |-> cp, conformance_weight |-> cw]

(* A loss with a diversity term and a categorical penalty. *)
LossWith_Diverse(hp, m, x, query_instance, desired, score) ==
    compute_yloss(m, x, desired)
    + (hp.sparsity_weight * compute_sparsity_loss(x, query_instance)) \div One
    + (hp.conformance_weight * (One - score)) \div One
    + (hp.plausibility_weight * compute_plausibility(x, query_instance)) \div One
    - (hp.diversity_weight * compute_plausibility(x, query_instance)) \div One
    + (hp.categorical_penalty * compute_sparsity_loss(x, query_instance)) \div One

(* compute_loss, lines 568-577: the loss of one row under the stored       *)
(* weights hp, given its conformance score.                                *)
LossWith(hp, m, x, query_instance, desired, score) ==
    compute_yloss(m, x, desired)
    + (hp.proximity_weight *
         (IF hp.proximity_weight > 0 /\ Cardinality(continuous_feature_indexes) > 1
          THEN compute_proximity_loss(x, query_instance) ELSE 0)) \div One
    + (hp.sparsity_weight *
         (IF hp.sparsity_weight > 0 THEN compute_sparsity_loss(x, query_instance) ELSE 0)) \div One
    + (hp.conformance_weight * (One - score)) \div One
    + (hp.plausibility_weight * compute_plausibility(x, query_instance)) \div One

(* The loss of one row under the weights update_hyperparameters receives   *)
(* by default (line 257: diversity_weight 0.5, categorical_penalty 0.1).   *)
LossOf(m, x, query_instance, desired, score) ==
    LossWith(update_hyperparameters(proximity_weight, sparsity_weight, plausibility_weight,
                                    One \div 2, One \div 10, conformance_weight),
             m, x, query_instance, desired, score)

(* compute_loss: rows <<index, loss>>, one per row of cfs, in the order of cfs. *)
compute_loss(m, rows, query_instance, desired, scores) ==
    [i \in DOMAIN rows |-> <<i, LossOf(m, rows[i], query_instance, desired, scores[i])>>]

(* fitness[fitness[:, 1].argsort()]: ascending by loss; equal losses keep *)
(* their order (numpy sorts arrays this short by insertion).              *)
RECURSIVE SortByLoss(_)
SortByLoss(fit) ==
    IF fit = <<>> THEN <<>>
    ELSE LET i0 == CHOOSE i \in DOMAIN fit :
                      /\ \A k \in DOMAIN fit : fit[i][2] <= fit[k][2]
                      /\ \A k \in DOMAIN fit : k < i => fit[i][2] < fit[k][2]
             rest == [k \in 1..(Len(fit) - 1) |-> IF k < i0 THEN fit[k] ELSE fit[k + 1]]
         IN  <<fit[i0]>> \o SortByLoss(rest)

(* seq[:n] *)
Take(s, n) == IF n <= 0 THEN <<>> ELSE SubSeq(s, 1, MinOf({n, Len(s)}))

----------------------------------------------------------------------------
(* Declarative conformance checker (Declare4Py) and the conformance scorer. *)

(* A constraint of the .decl model: template, the cardinality digit written  *)
(* after the template name (0 when none is written), and its activities.     *)
Con(t, n, acts) == [template |-> t, card |-> n, attributes |-> acts]
supports_cardinality(t) == t \in {"Existence", "Absence", "Exactly"}

(* The .decl models a search is run with. *)
DeclModels ==
    { << Con("Existence", 0, <<"review">>), Con("Response", 0, <<"review", "approve">>) >>,
      << Con("Existence", 0, <<"approve">>), Con("Existence", 2, <<"approve">>),
         Con("Absence", 2, <<"review">>) >>,
      << Con("Absence", 0, <<"review">>) >>,
      << >> }

Count(trace, a) == Cardinality({i \in DOMAIN trace : trace[i] = a})
Cardinal(c) == IF c.card = 0 THEN 1 ELSE c.card

(* State of one constraint on one finished trace (consider_vacuity = False). *)
CheckState(c, trace) ==
    LET a  == c.attributes[1]
        ok == CASE c.template = "Existence" -> Count(trace, a) >= Cardinal(c)
                [] c.template = "Absence"   -> Count(trace, a) < Cardinal(c)
                [] c.template = "Exactly"   -> Count(trace, a) = Cardinal(c)
                [] OTHER -> \A i \in DOMAIN trace : trace[i] = a =>
                               \E k \in DOMAIN trace : k > i /\ trace[k] = c.attributes[2]
    IN  IF ok THEN "SATISFIED" ELSE "VIOLATED"

(* The name under which the checker reports a constraint: the cardinality is *)
(* always spelled out for templates that support one.                        *)
ReportedName(c) ==
    IF supports_cardinality(c.template) THEN Con(c.template, Cardinal(c), c.attributes) ELSE c

(* Decoded activity sequence of one individual: its prefix columns in order, *)
(* '0' replaced by 'other'.                                                   *)
TraceOf(x) ==
    LET cols == SelectSeq([j \in DOMAIN feature_names |-> j], LAMBDA j : IsPrefix(feature_names[j]))
    IN  [k \in DOMAIN cols |-> LET l == decode(x[cols[k]]) IN IF l = "0" THEN "other" ELSE l]

(* d4py.conformance_checking: per case, constraint -> state over the working model. *)
conformance_checking(chk, rows) ==
    [i \in DOMAIN rows |-> [k \in DOMAIN chk |-> CheckState(chk[k], TraceOf(rows[i]))]]

(* remove(): "Existence1" -> "Existence" for the digits 1, 2 and 3. *)
remove(name) ==
    IF name.template \in {"Exactly", "Existence", "Absence"} /\ name.card \in 1..3
    THEN Con(name.template, 0, name.attributes) ELSE name

(* filter_declare_model: the checkers kept for the search. *)
filter_declare_model(query_instance, decl) ==
    LET model_check_query == conformance_checking(decl, <<query_instance>>)[1]
        query_patterns == {ReportedName(decl[k]) : k \in {k \in DOMAIN decl : model_check_query[k] = "SATISFIED"}}
        query_pattern_filter == {remove(n) : n \in query_patterns}
        first(c) == CHOOSE k \in DOMAIN decl : decl[k] = c /\ \A h \in DOMAIN decl : h < k => decl[h] # c
        kept == SelectSeq(decl, LAMBDA c : c \in query_pattern_filter)
    IN  [k \in DOMAIN kept |-> decl[first(kept[k])]]

activity_origin_name == "approve"

(* Index of the first event of the case carrying the activity, -1 when absent. *)
find_activity_position_by_name(trace, name) ==
    IF \E i \in DOMAIN trace : trace[i] = name
    THEN MinOf({i \in DOMAIN trace : trace[i] = name}) - 1
    ELSE -1

(* Number of constraints of a case that are not violated. *)
NonViolated(states) == Cardinality({k \in DOMAIN states : states[k] # "VIOLATED"})

(* len(v) / len(model_check_res.get(k).values()); the caller never divides by 0. *)
RawScore(states) == (NonViolated(states) * One) \div Len(states)

(* A penalty charged once for each of the two conditions that holds. *)
Punish_PerCondition(trace, origin_position, origin_name, penalty) ==
    LET activity_synth_position == find_activity_position_by_name(trace, origin_name)
    IN  (IF origin_position = activity_synth_position THEN penalty ELSE 0)
        + (IF activity_synth_position = -1 THEN penalty ELSE 0)

(* The amount subtracted from the raw score of one case, lines 1096-1108. *)
Punish(trace, origin_position, origin_name, penalty) ==
    LET activity_synth_position == find_activity_position_by_name(trace, origin_name)
    IN  IF origin_position = activity_synth_position \/ activity_synth_position = -1
        THEN penalty ELSE 0

(* compute_conformance_new: what it raises ("none" when it returns) and the *)
(* score of each row.                                                      *)
compute_conformance_new(rows, chk, origin_position, origin_name, penalty) ==
    LET model_check_res == conformance_checking(chk, rows)
    IN  IF \E i \in DOMAIN rows : Len(model_check_res[i]) = 0
        THEN [raised |-> "ZeroDivisionError", score |-> <<>>]
        ELSE [raised |-> "none",
              score |-> [i \in DOMAIN rows |->
                            RawScore(model_check_res[i])
                            - Punish(TraceOf(rows[i]), origin_position, origin_name, penalty)]]

(* Floating point infinities of the loss trackers. *)
PosInf == 1000 * One
NegInf == -PosInf
IsFinite(v) == v # PosInf /\ v # NegInf

(* abs(a - b) <= thresh in IEEE arithmetic: false when a or b is infinite. *)
AbsDiffLeq(a, b, t) == IsFinite(a) /\ IsFinite(b) /\ Abs(a - b) <= t

----------------------------------------------------------------------------
(* Population Initializer. *)

(* A batch row whose continuous draws are left unrounded. *)
random_inits_unrounded(ranges, ftv, query_instance) ==
    {x \in Individuals :
        \A j \in DOMAIN feature_names :
            LET feature == feature_names[j] IN
            IF feature \in ftv
            THEN IF feature \in continuous_feature_names
                 THEN x[j] \in Grid(ranges[feature][1], ranges[feature][2])
                 ELSE x[j] \in ranges[feature]
            ELSE x[j] = query_instance[j]}

(* One candidate of do_random_init: varied features drawn from their range  *)
(* (continuous ones rounded to the feature's precision, 0 decimals), fixed  *)
(* features copied from the query instance.                                 *)
random_inits(ranges, ftv, query_instance) ==
    {x \in Individuals :
        \A j \in DOMAIN feature_names :
            LET feature == feature_names[j] IN
            IF feature \in ftv
            THEN IF feature \in continuous_feature_names
                 THEN \E u \in Grid(ranges[feature][1], ranges[feature][2]) :
                          x[j] = np_round(u)
                 ELSE x[j] \in ranges[feature]
            ELSE x[j] = query_instance[j]}

RandomDraws(ftv, query_instance) == random_inits(feature_range, ftv, query_instance)

(* The candidates do_random_init retains. *)
ValidDraws(m, desired, ftv, query_instance) ==
    {x \in RandomDraws(ftv, query_instance) : is_cf_valid(m, desired, predict_fn_scores(m, x))}

(* do_random_init(num_inits, ...): every array it can return. *)
do_random_init(num_inits, m, desired, ftv, query_instance) ==
    [1..num_inits -> ValidDraws(m, desired, ftv, query_instance)]

(* Rows of the reference dataset predicted in the desired class, nearest-first *)
(* output of the KD tree cut to num_queries rows.                              *)
KD_tree_output(m, desired, num_queries) ==
    Take(SelectSeq(data_df, LAMBDA r : is_cf_valid(m, desired, predict_fn_scores(m, r))),
         num_queries)

(* The values do_KD_init can give feature jx of the row built from candidate c. *)
KDValues(jx, c, ftv, query_instance) ==
    LET feature == feature_names[jx] IN
    IF feature \notin ftv THEN {query_instance[jx]}
    ELSE IF feature \in continuous_feature_names
         THEN IF InRange(feature, c[jx]) THEN {c[jx]}
              ELSE IF InRange(feature, query_instance[jx]) THEN {query_instance[jx]}
              ELSE Grid(feature_range[feature][1], feature_range[feature][2])
         ELSE IF c[jx] \in feature_range[feature] THEN {c[jx]}
              ELSE IF query_instance[jx] \in feature_range[feature] THEN {query_instance[jx]}
              ELSE feature_range[feature]

ZeroRow == [j \in DOMAIN feature_names |-> 0]

(* The rows do_KD_init can build from candidate c: features jx..n of them. *)
RECURSIVE KDRowFrom(_, _, _, _)
KDRowFrom(jx, c, ftv, query_instance) ==
    IF jx > number_of_features THEN {<<>>}
    ELSE {<<v>> \o rest : v \in KDValues(jx, c, ftv, query_instance),
                          rest \in KDRowFrom(jx + 1, c, ftv, query_instance)}

(* self.cfs after the for loop of do_KD_init: rows past the candidates stay zero. *)
RECURSIVE KDRows(_, _, _, _, _)
KDRows(kx, psize, cands, ftv, query_instance) ==
    IF kx > psize THEN {<<>>}
    ELSE {<<one_init>> \o rest :
             one_init \in (IF kx > Len(cands) THEN {ZeroRow}
                           ELSE KDRowFrom(1, cands[kx], ftv, query_instance)),
             rest \in KDRows(kx + 1, psize, cands, ftv, query_instance)}

(* do_KD_init: every self.cfs it can leave. *)
do_KD_init(psize, cands, m, desired, ftv, query_instance) ==
    UNION { LET uniques == np_unique(rows) IN
            IF Len(uniques) # psize
            THEN {uniques \o remaining_cfs :
                     remaining_cfs \in do_random_init(psize - Len(uniques), m, desired, ftv, query_instance)}
            ELSE {rows}
          : rows \in KDRows(1, psize, cands, ftv, query_instance) }

----------------------------------------------------------------------------
(* Mating Engine: plain crossover. *)

(* The values mate can give gene j of the child of k1 and k2. *)
MateGene(j, k1, k2, ftv, query_instance) ==
    LET feat_name == feature_names[j] IN
    {k1[j], k2[j]} \cup
    (IF feat_name \in ftv
     THEN IF feat_name \in continuous_feature_names
          THEN Grid(feature_range[feat_name][1], feature_range[feat_name][1])
          ELSE feature_range[feat_name]
     ELSE {query_instance[j]})

mate(k1, k2, ftv, query_instance) ==
    {one_init \in Individuals :
        \A j \in DOMAIN feature_names : one_init[j] \in MateGene(j, k1, k2, ftv, query_instance)}

----------------------------------------------------------------------------
(* The search: _generate_counterfactuals up to the call of find_counterfactuals, *)
(* then find_counterfactuals.                                                    *)

Queries == { <<CUnit, 2, 1>> }
VarySets == { {"amount", "prefix_1"} }
Threshs == { One \div 100 }
Penalties == { One \div 4 }
Positions == { 1 }
Iterations == {0, 1, 2, MaxIter}

(* The state before initialization, for given sets of inputs. *)
InitWith(vary_sets, requests, random_requests, iteration_choices) ==
    /\ pc = "start"
    /\ x1 \in Queries
    /\ features_to_vary \in vary_sets
    /\ mdl \in Models
    /\ desired_class = misc_init(mdl, x1)
    /\ \E decl \in DeclModels : checkers = filter_declare_model(x1, decl)
    /\ \E requested \in requests, algorithm \in {"DiverseCF", "RandomInitCF"} :
          /\ algorithm = "RandomInitCF" => requested \in random_requests
          /\ population_size = PopFactor * requested
          /\ total_CFs = IF algorithm = "RandomInitCF" THEN 1 ELSE requested
    /\ maxiterations \in iteration_choices
    /\ thresh \in Threshs
    /\ conformance_penalty \in Penalties
    /\ activity_origin_position \in Positions
    /\ population = <<>>
    /\ iterations = 0
    /\ previous_best_loss = NegInf
    /\ current_best_loss = PosInf
    /\ stop_cnt = 0
    /\ cfs_preds = <<>>
    /\ new_generation_1 = <<>>
    /\ new_generation_2 = <<>>
    /\ conformance_score = <<>>
    /\ final_cfs = <<>>
    /\ self_cfs_preds = <<>>
    /\ scanned = 0
    /\ optimization = "unread"

Init == InitWith(VarySets, 0..MaxCFs, 0..MaxRandomInits, Iterations) /\ ret = 0

(* find_counterfactuals, lines 745-750: the state the loop starts from. *)
EnterSearch(init_cfs) ==
    /\ population' = init_cfs
    /\ iterations' = 0
    /\ previous_best_loss' = NegInf
    /\ current_best_loss' = PosInf
    /\ stop_cnt' = 0
    /\ cfs_preds' = [k \in 1..total_CFs |-> PosInf]
    /\ pc' = "INITIALIZED"
    /\ UNCHANGED <<ret, config, new_generation_1, new_generation_2, conformance_score, result>>

(* initialization == 'random' *)
RandomInitialization ==
    /\ pc = "start"
    /\ \E init_cfs \in do_random_init(population_size, mdl, desired_class, features_to_vary, x1) :
          EnterSearch(init_cfs)

(* initialization == 'kdtree' *)
KDInitialization ==
    /\ pc = "start"
    /\ LET num_queries == MinOf({Len(data_df), population_size * total_CFs})
           cands == KD_tree_output(mdl, desired_class, num_queries)
       IN  \E init_cfs \in do_KD_init(population_size, cands, mdl, desired_class, features_to_vary, x1) :
              EnterSearch(init_cfs)

(* The elites' predictions all satisfy the desired outcome. *)
ElitesValid(preds) ==
    IF model_type(mdl) = "Classifier"
    THEN \A i \in DOMAIN preds : preds[i] = desired_class
    ELSE \A i \in DOMAIN preds : desired_range[1] <= preds[i] /\ preds[i] <= desired_range[2]

(* The stagnation test of lines 758-761. *)
Stagnant(prev, cur, t, preds) == AbsDiffLeq(prev, cur, t) /\ ElitesValid(preds)

(* A stop counter that is never reset. *)
NextStopCnt_NoReset(cnt, stagnant) == IF stagnant THEN cnt + 1 ELSE cnt

(* stop_cnt after the test of lines 758-764. *)
NextStopCnt(cnt, stagnant) == IF stagnant THEN cnt + 1 ELSE 0

(* if stop_cnt >= 5: break *)
ShouldBreak(cnt) == cnt >= StopLimit

(* Loop head and stopping check, lines 756-767. *)
StopCheck ==
    /\ pc \in {"INITIALIZED", "check"}
    /\ IF iterations < maxiterations /\ total_CFs > 0
       THEN LET cnt == NextStopCnt(stop_cnt,
                          Stagnant(previous_best_loss, current_best_loss, thresh, cfs_preds))
            IN  /\ stop_cnt' = cnt
                /\ pc' = IF ShouldBreak(cnt) THEN "CONVERGED" ELSE "score"
       ELSE /\ stop_cnt' = stop_cnt
            /\ pc' = IF iterations >= maxiterations THEN "MAX_ITERS_REACHED" ELSE "NOT_ITERATED"
    /\ UNCHANGED <<ret, config, population, iterations, previous_best_loss, current_best_loss,
                   cfs_preds, new_generation_1, new_generation_2, conformance_score, result>>

(* The rows of pop that the sorted fitness names last: the n worst. *)
TopMembers_Worst(pop, fitness, n) ==
    [k \in DOMAIN Take(fitness, n) |-> pop[fitness[Len(fitness) + 1 - k][1]]]

(* The rows of pop that the sorted fitness names, best first, at most n of them. *)
TopMembers(pop, fitness, n) == [k \in DOMAIN Take(fitness, n) |-> pop[fitness[k][1]]]

(* Predictions of the elites, lines 777-781. *)
ElitePreds(to_pred) ==
    [k \in DOMAIN to_pred |->
        IF model_type(mdl) = "Classifier"
        THEN predict_fn_custom(mdl, to_pred[k], desired_class)
        ELSE predict_fn(mdl, to_pred[k])]

(* An iteration that raises nothing. *)
IterationRaises_Nothing(pop, raised, rest_members) == "none"

(* The exception an iteration raises before it breeds, "none" if it goes on: *)
(* the scorer's (line 771), IndexError at population_fitness[0][1] for an    *)
(* empty population (line 774), SystemError when no offspring is to be bred  *)
(* (lines 788-812).                                                          *)
IterationRaises(pop, raised, rest_members) ==
    IF raised # "none" THEN raised
    ELSE IF pop = <<>> THEN "IndexError"
    ELSE IF rest_members > 0 THEN "none" ELSE "SystemError"

(* Lines 768-790: deduplicate, score, rank, take the elites. *)
Score ==
    /\ pc = "score"
    /\ previous_best_loss' = current_best_loss
    /\ LET pop == np_unique(population)
           conf == compute_conformance_new(pop, checkers, activity_origin_position,
                                           activity_origin_name, conformance_penalty)
           top_members == total_CFs
           rest_members == population_size - top_members
           raises == IterationRaises(pop, conf.raised, rest_members)
       IN  /\ population' = pop
           /\ pc' = IF raises = "none" THEN "breed" ELSE raises
           /\ IF conf.raised # "none"
              THEN UNCHANGED <<conformance_score, current_best_loss, cfs_preds,
                               new_generation_1, new_generation_2>>
              ELSE /\ conformance_score' = conf.score
                   /\ IF pop = <<>>
                      THEN UNCHANGED <<current_best_loss, cfs_preds,
                                       new_generation_1, new_generation_2>>
                      ELSE LET population_fitness ==
                                   SortByLoss(compute_loss(mdl, pop, x1, desired_class, conf.score))
                               elites == TopMembers(pop, population_fitness, top_members)
                           IN  /\ current_best_loss' = population_fitness[1][2]
                               /\ cfs_preds' = ElitePreds(elites)
                               /\ new_generation_1' = elites
                               /\ new_generation_2' = <<>>
    /\ UNCHANGED <<ret, config, iterations, stop_cnt, result>>

(* Parent indexes: random.randint(0, int(len(population) / 2)), both ends included. *)
ParentIndexes(pop) == 0..(Len(pop) \div 2)

(* One pass of the for loop of lines 792-804. *)
Breed ==
    /\ pc = "breed"
    /\ Len(new_generation_2) < population_size - total_CFs
    /\ \E idx1 \in ParentIndexes(population), idx2 \in ParentIndexes(population) :
          \E child \in mate(population[idx1 + 1], population[idx2 + 1], features_to_vary, x1) :
             new_generation_2' = Append(new_generation_2, child)
    /\ UNCHANGED <<ret, pc, config, population, iterations, previous_best_loss, current_best_loss,
                   stop_cnt, cfs_preds, new_generation_1, conformance_score, result>>

(* A next population of the elites alone. *)
Concatenate_ElitesOnly ==
    /\ pc = "breed"
    /\ Len(new_generation_2) = population_size - total_CFs
    /\ population' = new_generation_1
    /\ iterations' = iterations + 1
    /\ pc' = "check"
    /\ UNCHANGED <<ret, config, previous_best_loss, current_best_loss, stop_cnt, cfs_preds,
                   new_generation_1, new_generation_2, conformance_score, result>>

(* Lines 806-813: the next population. *)
Concatenate ==
    /\ pc = "breed"
    /\ Len(new_generation_2) = population_size - total_CFs
    /\ population' = new_generation_1 \o new_generation_2
    /\ iterations' = iterations + 1
    /\ pc' = "check"
    /\ UNCHANGED <<ret, config, previous_best_loss, current_best_loss, stop_cnt, cfs_preds,
                   new_generation_1, new_generation_2, conformance_score, result>>

LoopExited == pc \in {"CONVERGED", "MAX_ITERS_REACHED", "NOT_ITERATED"}

(* A filter that keeps every row. *)
KeepConformant_All(pop, score) == [i \in DOMAIN pop |-> i]

(* population[self.conformance_score > 0.99] *)
KeepConformant(pop, score) == SelectSeq([i \in DOMAIN pop |-> i], LAMBDA i : 100 * score[i] > 99 * One)

(* Lines 817-825: the optional conformance filter, then the scan starts. *)
Filter ==
    /\ LoopExited
    /\ \E opt \in {"filtering", "none"} :
          /\ optimization' = opt
          /\ IF opt = "filtering"
             THEN LET conf == compute_conformance_new(population, checkers, activity_origin_position,
                                                      activity_origin_name, conformance_penalty)
                  IN  IF conf.raised # "none"
                      THEN /\ pc' = conf.raised
                           /\ UNCHANGED <<population, conformance_score>>
                      ELSE /\ conformance_score' = conf.score
                           /\ population' = [k \in DOMAIN KeepConformant(population, conf.score) |->
                                               population[KeepConformant(population, conf.score)[k]]]
                           /\ pc' = "FILTERING"
             ELSE /\ pc' = "FILTERING"
                  /\ UNCHANGED <<population, conformance_score>>
    /\ final_cfs' = <<>>
    /\ self_cfs_preds' = <<>>
    /\ scanned' = 0
    /\ UNCHANGED <<ret, config, iterations, previous_best_loss, current_best_loss, stop_cnt,
                   cfs_preds, new_generation_1, new_generation_2>>

(* The prediction recorded with a kept row, lines 833-836. *)
RecordedPrediction(predictions) ==
    IF model_type(mdl) = "Classifier" /\ Len(predictions) > 1
    THEN np_argmax(predictions) ELSE predictions

(* A scan that goes on after total_CFs rows are kept. *)
ScanStops_Never(kept) == FALSE

(* if len(self.final_cfs) >= self.total_CFs: break *)
ScanStops(kept) == Len(kept) >= total_CFs

(* One pass of the while loop of lines 826-839, or its exit. *)
Scan ==
    /\ pc = "FILTERING"
    /\ IF scanned < population_size /\ scanned < Len(population)
       THEN LET row == population[scanned + 1]
                predictions == predict_fn_scores(mdl, row)
                keep == is_cf_valid(mdl, desired_class, predictions)
                kept == IF keep THEN Append(final_cfs, row) ELSE final_cfs
            IN  /\ final_cfs' = kept
                /\ self_cfs_preds' = IF keep
                                     THEN Append(self_cfs_preds, RecordedPrediction(predictions))
                                     ELSE self_cfs_preds
                /\ IF ScanStops(kept)
                   THEN pc' = "DONE" /\ scanned' = scanned
                   ELSE pc' = pc /\ scanned' = scanned + 1
       ELSE /\ pc' = "DONE"
            /\ UNCHANGED <<final_cfs, self_cfs_preds, scanned>>
    /\ UNCHANGED <<ret, config, loopvars, optimization>>

Next ==
    \/ RandomInitialization
    \/ KDInitialization
    \/ StopCheck
    \/ Score
    \/ Breed
    \/ Concatenate
    \/ Filter
    \/ Scan

Spec == Init /\ [][Next]_vars

----------------------------------------------------------------------------
(* The Population Initializer on its own, for populations larger than the  *)
(* number of counter-class rows of the reference dataset.                   *)
InitInitializer ==
    /\ InitWith(VarySets, 0..MaxInitCFs, 0..MaxRandomInits, {0})
    /\ ret = 0
    /\ Len(checkers) > 1

NextInitializer == RandomInitialization \/ KDInitialization

SpecInit == InitInitializer /\ [][NextInitializer]_vars

----------------------------------------------------------------------------
(* compute_sparsity_loss on its own: any query instance, any candidate. *)
InitSparsity ==
    /\ InitWith(VarySets, {0}, {0}, {0})
    /\ ret = 0
    /\ Len(checkers) > 1
    /\ mdl = "clf_amount"

ChooseSparsityInput ==
    /\ pc = "start"
    /\ \E q \in Individuals, x \in Individuals :
          /\ x1' = q
          /\ population' = <<x>>
    /\ pc' = "sparsity"
    /\ UNCHANGED <<ret, features_to_vary, mdl, desired_class, checkers, population_size, total_CFs,
                   maxiterations, thresh, conformance_penalty, activity_origin_position,
                   iterations, previous_best_loss, current_best_loss, stop_cnt, cfs_preds,
                   new_generation_1, new_generation_2, conformance_score, result>>

ComputeSparsity ==
    /\ pc = "sparsity"
    /\ ret' = compute_sparsity_loss(population[1], x1)
    /\ pc' = "sparsity_done"
    /\ UNCHANGED <<config, loopvars, result>>

NextSparsity == ChooseSparsityInput \/ ComputeSparsity

SpecSparsity == InitSparsity /\ [][NextSparsity]_vars

----------------------------------------------------------------------------
(* compute_conformance_new on its own: any traces over the label dictionary *)
(* and the padding code, any penalty, any reference position.               *)
CaseRows == {<<CUnit, p1, p2>> : p1 \in 0..2, p2 \in 0..2}
ScorerQueries == {<<CUnit, 2, 1>>, <<CUnit, 1, 2>>, <<CUnit, 1, 1>>}
ScorerPenalties == {0, One \div 4, One}
ScorerPositions == {-1, 0, 1}

InitScorer ==
    /\ InitWith(VarySets, {0}, {0}, {0})
    /\ ret = 0
    /\ mdl = "clf_amount"

ChooseScorerInput ==
    /\ pc = "start"
    /\ \E q \in ScorerQueries, decl \in DeclModels, n \in 1..MaxCase :
          \E rows \in [1..n -> CaseRows] :
             /\ x1' = q
             /\ checkers' = filter_declare_model(q, decl)
             /\ population' = rows
    /\ conformance_penalty' \in ScorerPenalties
    /\ activity_origin_position' \in ScorerPositions
    /\ pc' = "conformance"
    /\ UNCHANGED <<ret, features_to_vary, mdl, desired_class, population_size, total_CFs,
                   maxiterations, thresh, iterations, previous_best_loss, current_best_loss,
                   stop_cnt, cfs_preds, new_generation_1, new_generation_2, conformance_score,
                   result>>

ComputeConformance ==
    /\ pc = "conformance"
    /\ LET conf == compute_conformance_new(population, checkers, activity_origin_position,
                                           activity_origin_name, conformance_penalty)
       IN  /\ conformance_score' = conf.score
           /\ pc' = IF conf.raised # "none" THEN conf.raised ELSE "conformance_done"
    /\ UNCHANGED <<ret, config, population, iterations, previous_best_loss, current_best_loss,
                   stop_cnt, cfs_preds, new_generation_1, new_generation_2, result>>

NextScorer == ChooseScorerInput \/ ComputeConformance

SpecScorer == InitScorer /\ [][NextScorer]_vars

----------------------------------------------------------------------------
(* The deduplication of line 769 on its own, applied once and then again to *)
(* its own result.                                                          *)
UniqueRows == {<<a, p1, 1>> : a \in 0..(CUnit + 1), p1 \in 1..2}

InitUnique ==
    /\ InitWith(VarySets, {0}, {0}, {0})
    /\ ret = 0
    /\ mdl = "clf_amount"

ChooseUniqueInput ==
    /\ pc = "start"
    /\ \E n \in 1..MaxRows : population' \in [1..n -> UniqueRows]
    /\ pc' = "unique"
    /\ UNCHANGED <<ret, config, iterations, previous_best_loss, current_best_loss, stop_cnt,
                   cfs_preds, new_generation_1, new_generation_2, conformance_score, result>>

ApplyUnique ==
    /\ pc = "unique"
    /\ ret' = np_unique(population)
    /\ pc' = "unique_once"
    /\ UNCHANGED <<config, loopvars, result>>

ApplyUniqueAgain ==
    /\ pc = "unique_once"
    /\ population' = ret
    /\ ret' = np_unique(ret)
    /\ pc' = "unique_twice"
    /\ UNCHANGED <<config, iterations, previous_best_loss, current_best_loss, stop_cnt,
                   cfs_preds, new_generation_1, new_generation_2, conformance_score, result>>

NextUnique == ChooseUniqueInput \/ ApplyUnique \/ ApplyUniqueAgain

SpecUnique == InitUnique /\ [][NextUnique]_vars

----------------------------------------------------------------------------
(* Seeded runs.  The two generators the program draws from (Python's random *)
(* and numpy's np.random) are states of a small congruential generator; a   *)
(* draw reads the state and advances it.                                    *)
RngStates == 0..15
Advance(g) == (5 * g + 3) % Cardinality(RngStates)

(* The index in 0..n-1 a generator in state g draws among n alternatives. *)
Uniform(g, n) == (g \div 2) % n

(* random.seed(random_seed), line 311: the state left in Python's generator. *)
random_seed_state(before, random_seed) == random_seed % Cardinality(RngStates)

(* A numpy generator that keeps the state it had before the call. *)
np_random_seed_skipped(before, random_seed) == before

(* np.random.seed(random_seed), line 312: the state left in numpy's generator. *)
np_random_seed(before, random_seed) == random_seed % Cardinality(RngStates)

(* The members of a set of integers in ascending order. *)
RECURSIVE SortInts(_)
SortInts(S) == IF S = {} THEN <<>> ELSE <<MinOf(S)>> \o SortInts(S \ {MinOf(S)})

(* np.random.uniform(lo, hi) or np.random.choice(levels): the value drawn  *)
(* from a set of alternatives by numpy's generator in state g.             *)
np_draw(S, g) == SortInts(S)[Uniform(g, Cardinality(S)) + 1]

(* body(v) with v evaluated once, before body is. *)
Strict(v, body(_)) == CHOOSE r \in {body(x) : x \in {v}} : TRUE

(* Column jx of a batch of k candidates of do_random_init, lines 136-145:  *)
(* the values, and numpy's generator after them.                           *)
RECURSIVE SeededColumn(_, _, _, _, _)
SeededColumn(jx, k, ftv, query_instance, g) ==
    IF k = 0 THEN [vals |-> <<>>, np |-> g]
    ELSE LET feature == feature_names[jx]
             varied == feature \in ftv
             v == IF ~varied THEN query_instance[jx]
                  ELSE IF feature \in continuous_feature_names
                       THEN np_round(np_draw(Grid(feature_range[feature][1],
                                                  feature_range[feature][2]), g))
                       ELSE np_draw(feature_range[feature], g)
         IN  Strict(IF varied THEN Advance(g) ELSE g, LAMBDA g1 :
             Strict(SeededColumn(jx, k - 1, ftv, query_instance, g1), LAMBDA rest :
                 [vals |-> <<v>> \o rest.vals, np |-> rest.np]))

(* One batch of k candidates, column by column. *)
SeededBatch(k, ftv, query_instance, g) ==
    Strict(SeededColumn(1, k, ftv, query_instance, g), LAMBDA c1 :
    Strict(SeededColumn(2, k, ftv, query_instance, c1.np), LAMBDA c2 :
    Strict(SeededColumn(3, k, ftv, query_instance, c2.np), LAMBDA c3 :
        [rows |-> [i \in 1..k |-> <<c1.vals[i], c2.vals[i], c3.vals[i]>>], np |-> c3.np])))

(* do_random_init under a seeded generator: batches of the missing number  *)
(* of candidates until num_inits valid ones are collected; "looping" when  *)
(* MaxBatches batches did not suffice.                                     *)
RECURSIVE SeededRandomInit(_, _, _, _, _, _, _, _)
SeededRandomInit(valid_inits, num_inits, m, desired, ftv, query_instance, g, batches) ==
    IF Len(valid_inits) >= num_inits
    THEN [cfs |-> Take(valid_inits, num_inits), np |-> g, looping |-> FALSE]
    ELSE IF batches = 0 THEN [cfs |-> valid_inits, np |-> g, looping |-> TRUE]
    ELSE Strict(SeededBatch(num_inits - Len(valid_inits), ftv, query_instance, g), LAMBDA b :
         Strict(valid_inits \o SelectSeq(b.rows, LAMBDA x :
                                  is_cf_valid(m, desired, predict_fn_scores(m, x))), LAMBDA kept :
             SeededRandomInit(kept, num_inits, m, desired, ftv, query_instance, b.np,
                              batches - 1)))

(* The row do_KD_init builds from candidate c under a seeded generator,   *)
(* features jx..n of it: a draw is made only where lines 175 and 184 draw. *)
RECURSIVE SeededKDRow(_, _, _, _, _)
SeededKDRow(jx, c, ftv, query_instance, g) ==
    IF jx > number_of_features THEN [row |-> <<>>, np |-> g]
    ELSE LET values == KDValues(jx, c, ftv, query_instance)
             drawn == Cardinality(values) > 1
             v == IF drawn THEN np_draw(values, g) ELSE CHOOSE only \in values : TRUE
         IN  Strict(IF drawn THEN Advance(g) ELSE g, LAMBDA g1 :
             Strict(SeededKDRow(jx + 1, c, ftv, query_instance, g1), LAMBDA rest :
                 [row |-> <<v>> \o rest.row, np |-> rest.np]))

(* self.cfs after the for loop of do_KD_init, rows kx..psize of it. *)
RECURSIVE SeededKDRows(_, _, _, _, _, _)
SeededKDRows(kx, psize, cands, ftv, query_instance, g) ==
    IF kx > psize THEN [rows |-> <<>>, np |-> g]
    ELSE Strict(IF kx > Len(cands) THEN [row |-> ZeroRow, np |-> g]
                ELSE SeededKDRow(1, cands[kx], ftv, query_instance, g), LAMBDA one_init :
         Strict(SeededKDRows(kx + 1, psize, cands, ftv, query_instance, one_init.np), LAMBDA rest :
             [rows |-> <<one_init.row>> \o rest.rows, np |-> rest.np]))

(* do_KD_init under a seeded generator. *)
SeededKDInit(psize, cands, m, desired, ftv, query_instance, g) ==
    Strict(SeededKDRows(1, psize, cands, ftv, query_instance, g), LAMBDA built :
    Strict(np_unique(built.rows), LAMBDA uniques :
        IF Len(uniques) # psize
        THEN Strict(SeededRandomInit(<<>>, psize - Len(uniques), m, desired, ftv,
                                     query_instance, built.np, MaxBatches), LAMBDA remaining_cfs :
                 [cfs |-> uniques \o remaining_cfs.cfs, np |-> remaining_cfs.np,
                  looping |-> remaining_cfs.looping])
        ELSE [cfs |-> built.rows, np |-> built.np, looping |-> FALSE]))

(* Gene j of the child of k1 and k2, lines 702-724, under seeded generators: *)
(* prob is drawn by random.random(), a mutated value by np.random.           *)
SeededGene(j, k1, k2, ftv, query_instance, py, g) ==
    LET feat_name == feature_names[j]
        prob == Uniform(py, 5)
    IN  IF prob < 2 THEN [v |-> k1[j], py |-> Advance(py), np |-> g]
        ELSE IF prob < 4 THEN [v |-> k2[j], py |-> Advance(py), np |-> g]
        ELSE IF feat_name \in ftv
             THEN IF feat_name \in continuous_feature_names
                  THEN [v |-> np_draw(Grid(feature_range[feat_name][1],
                                           feature_range[feat_name][1]), g),
                        py |-> Advance(py), np |-> Advance(g)]
                  ELSE [v |-> np_draw(feature_range[feat_name], g),
                        py |-> Advance(py), np |-> Advance(g)]
             ELSE [v |-> query_instance[j], py |-> Advance(py), np |-> g]

(* mate(k1, k2, ...) under seeded generators. *)
SeededMate(k1, k2, ftv, query_instance, py, g) ==
    Strict(SeededGene(1, k1, k2, ftv, query_instance, py, g), LAMBDA g1 :
    Strict(SeededGene(2, k1, k2, ftv, query_instance, g1.py, g1.np), LAMBDA g2 :
    Strict(SeededGene(3, k1, k2, ftv, query_instance, g2.py, g2.np), LAMBDA g3 :
        [child |-> <<g1.v, g2.v, g3.v>>, py |-> g3.py, np |-> g3.np])))

(* random.randint(0, int(len(population) / 2)) under a seeded generator. *)
SeededParentIndex(pop, py) == Uniform(py, (Len(pop) \div 2) + 1)

(* One invocation of the search as a record: its position, the states of  *)
(* the two generators and the locals of find_counterfactuals.              *)
NewRun(py, g) ==
    [pc |-> "unseeded", py |-> py, np |-> g, population |-> <<>>, iterations |-> 0,
     previous_best_loss |-> NegInf, current_best_loss |-> PosInf, stop_cnt |-> 0,
     cfs_preds |-> <<>>, new_generation_1 |-> <<>>, new_generation_2 |-> <<>>,
     final_cfs |-> <<>>, self_cfs_preds |-> <<>>, scanned |-> 0, steps |-> 0]

(* Lines 311-312. *)
RunSeed(st, random_seed) ==
    [st EXCEPT !.py = random_seed_state(st.py, random_seed),
               !.np = np_random_seed(st.np, random_seed),
               !.pc = "start"]

(* do_cf_initializations and lines 745-750. *)
RunInitialize(st, initialization) ==
    Strict(IF initialization = "random"
           THEN SeededRandomInit(<<>>, population_size, mdl, desired_class,
                                 features_to_vary, x1, st.np, MaxBatches)
           ELSE SeededKDInit(population_size,
                             KD_tree_output(mdl, desired_class,
                                 MinOf({Len(data_df), population_size * total_CFs})),
                             mdl, desired_class, features_to_vary, x1, st.np), LAMBDA init :
        IF init.looping THEN [st EXCEPT !.pc = "looping", !.np = init.np]
        ELSE [st EXCEPT !.population = init.cfs, !.np = init.np,
                        !.cfs_preds = [k \in 1..total_CFs |-> PosInf],
                        !.pc = "INITIALIZED"])

(* Lines 756-767. *)
RunStopCheck(st) ==
    IF st.iterations < maxiterations /\ total_CFs > 0
    THEN LET cnt == NextStopCnt(st.stop_cnt,
                        Stagnant(st.previous_best_loss, st.current_best_loss, thresh, st.cfs_preds))
         IN  [st EXCEPT !.stop_cnt = cnt,
                        !.pc = IF ShouldBreak(cnt) THEN "CONVERGED" ELSE "score"]
    ELSE [st EXCEPT !.pc = IF st.iterations >= maxiterations
                           THEN "MAX_ITERS_REACHED" ELSE "NOT_ITERATED"]

(* Lines 768-790. *)
RunScore(st) ==
    LET pop == np_unique(st.population)
        conf == compute_conformance_new(pop, checkers, activity_origin_position,
                                        activity_origin_name, conformance_penalty)
    IN  IF conf.raised # "none"
        THEN [st EXCEPT !.previous_best_loss = st.current_best_loss, !.population = pop,
                        !.pc = conf.raised]
        ELSE IF pop = <<>>
        THEN [st EXCEPT !.previous_best_loss = st.current_best_loss, !.population = pop,
                        !.pc = "IndexError"]
        ELSE LET population_fitness ==
                     SortByLoss(compute_loss(mdl, pop, x1, desired_class, conf.score))
                 elites == TopMembers(pop, population_fitness, total_CFs)
             IN  [st EXCEPT !.previous_best_loss = st.current_best_loss,
                            !.population = pop,
                            !.current_best_loss = population_fitness[1][2],
                            !.cfs_preds = ElitePreds(elites),
                            !.new_generation_1 = elites,
                            !.new_generation_2 = <<>>,
                            !.pc = IF population_size - total_CFs > 0
                                   THEN "breed" ELSE "SystemError"]

(* Lines 792-813: one offspring, or the concatenation when all are bred. *)
RunBreed(st) ==
    IF Len(st.new_generation_2) < population_size - total_CFs
    THEN LET idx1 == SeededParentIndex(st.population, st.py)
             idx2 == SeededParentIndex(st.population, Advance(st.py))
         IN  Strict(SeededMate(st.population[idx1 + 1], st.population[idx2 + 1],
                               features_to_vary, x1, Advance(Advance(st.py)), st.np), LAMBDA m :
                 [st EXCEPT !.new_generation_2 = Append(st.new_generation_2, m.child),
                            !.py = m.py, !.np = m.np])
    ELSE [st EXCEPT !.population = st.new_generation_1 \o st.new_generation_2,
                    !.iterations = st.iterations + 1,
                    !.pc = "check"]

(* Lines 817-825. *)
RunFilter(st, opt) ==
    IF opt = "filtering"
    THEN LET conf == compute_conformance_new(st.population, checkers, activity_origin_position,
                                             activity_origin_name, conformance_penalty)
             keep == KeepConformant(st.population, conf.score)
         IN  IF conf.raised # "none" THEN [st EXCEPT !.pc = conf.raised]
             ELSE [st EXCEPT !.population = [k \in DOMAIN keep |-> st.population[keep[k]]],
                             !.pc = "FILTERING"]
    ELSE [st EXCEPT !.pc = "FILTERING"]

(* Lines 826-839: one pass of the scan, or its exit. *)
RunScan(st) ==
    IF st.scanned < population_size /\ st.scanned < Len(st.population)
    THEN LET row == st.population[st.scanned + 1]
             predictions == predict_fn_scores(mdl, row)
             keep == is_cf_valid(mdl, desired_class, predictions)
             kept == IF keep THEN Append(st.final_cfs, row) ELSE st.final_cfs
         IN  [st EXCEPT !.final_cfs = kept,
                        !.self_cfs_preds = IF keep
                                           THEN Append(st.self_cfs_preds,
                                                       RecordedPrediction(predictions))
                                           ELSE st.self_cfs_preds,
                        !.pc = IF ScanStops(kept) THEN "DONE" ELSE "FILTERING",
                        !.scanned = IF ScanStops(kept) THEN st.scanned ELSE st.scanned + 1]
    ELSE [st EXCEPT !.pc = "DONE"]

RunEnded(st) ==
    st.pc \in {"DONE", "looping", "ZeroDivisionError", "IndexError", "SystemError"}

(* The next state of an invocation. *)
RunStep(st, inp) ==
    Strict(CASE st.pc = "unseeded" -> RunSeed(st, inp.random_seed)
             [] st.pc = "start" -> RunInitialize(st, inp.initialization)
             [] st.pc \in {"INITIALIZED", "check"} -> RunStopCheck(st)
             [] st.pc = "score" -> RunScore(st)
             [] st.pc = "breed" -> RunBreed(st)
             [] st.pc \in {"CONVERGED", "MAX_ITERS_REACHED", "NOT_ITERATED"} ->
                    RunFilter(st, inp.optimization)
             [] st.pc = "FILTERING" -> RunScan(st)
             [] OTHER -> st,
           LAMBDA nxt : [nxt EXCEPT !.steps = st.steps + 1])

(* Two invocations with the same inputs and the same seed, whatever the    *)
(* generators held before.  ret holds the inputs and both invocations.    *)
Seeds == {1, 6, 11}
PriorStates == {0, 9}

InitSeeded ==
    /\ InitWith(VarySets, 1..MaxCFs, 1..MaxRandomInits, {2})
    /\ \E random_seed \in Seeds, initialization \in {"random", "kdtree"},
          opt \in {"filtering", "none"}, py2 \in PriorStates, g2 \in PriorStates :
          ret = [inp |-> [random_seed |-> random_seed, initialization |-> initialization,
                          optimization |-> opt],
                 first |-> NewRun(0, 0),
                 second |-> NewRun(py2, g2)]

StepFirst ==
    /\ pc = "start"
    /\ ret.first.steps = ret.second.steps
    /\ ~RunEnded(ret.first)
    /\ ret' = [ret EXCEPT !.first = RunStep(ret.first, ret.inp)]
    /\ UNCHANGED <<pc, config, loopvars, result>>

StepSecond ==
    /\ pc = "start"
    /\ ret.first.steps > ret.second.steps
    /\ ret' = [ret EXCEPT !.second = RunStep(ret.second, ret.inp)]
    /\ UNCHANGED <<pc, config, loopvars, result>>

NextSeeded == StepFirst \/ StepSecond

SpecSeeded == InitSeeded /\ [][NextSeeded]_vars

----------------------------------------------------------------------------
(* do_random_init on its own, batch by batch (lines 126-151).              *)

(* The sets of features a caller lets vary: with prefix_2 alone no         *)
(* candidate differs from the query instance in a feature a model reads.   *)
RandomVarySets == { {"amount", "prefix_1"}, {"prefix_2"} }

(* self.feature_range as permitted_range leaves it: the interval of amount *)
(* is [1.0, 2.0] or [0.5, 2.0]; the precision of amount is 0 decimals.     *)
RangeChoices == { feature_range, [feature_range EXCEPT !.amount = <<1, 2 * CUnit>>] }

InitRandom ==
    /\ InitWith(RandomVarySets, 0..1, 0..1, {0})
    /\ \E ranges \in RangeChoices :
          ret = [ranges |-> ranges, batch |-> <<>>, valid_inits |-> <<>>]

(* One pass of the while loop of line 130: a batch of the missing number   *)
(* of candidates is drawn and the valid ones are retained.                 *)
DrawBatch ==
    /\ pc = "start"
    /\ Len(ret.valid_inits) < population_size
    /\ \E batch \in [1..(population_size - Len(ret.valid_inits)) ->
                        random_inits(ret.ranges, features_to_vary, x1)] :
          ret' = [ret EXCEPT !.batch = batch,
                             !.valid_inits =
                                 @ \o SelectSeq(batch, LAMBDA x :
                                          is_cf_valid(mdl, desired_class,
                                                      predict_fn_scores(mdl, x)))]
    /\ UNCHANGED <<pc, config, loopvars, result>>

(* Line 151: the loop is left and the first num_inits candidates returned. *)
ReturnInits ==
    /\ pc = "start"
    /\ Len(ret.valid_inits) >= population_size
    /\ pc' = "INITIALIZED"
    /\ population' = Take(ret.valid_inits, population_size)
    /\ UNCHANGED <<config, iterations, previous_best_loss, current_best_loss, stop_cnt,
                   cfs_preds, new_generation_1, new_generation_2, conformance_score,
                   result, ret>>

NextRandom == DrawBatch \/ ReturnInits

(* The loop is not suspended: a pass that can be made is made. *)
SpecRandom == InitRandom /\ [][NextRandom]_vars /\ WF_vars(NextRandom)

----------------------------------------------------------------------------
(* Successive invocations of _generate_counterfactuals on one explainer:   *)
(* self.cfs (line 50: empty at construction) outlives an invocation.       *)

MaxInvocations == 2

InitReuse ==
    /\ InitWith(VarySets, {0}, {0}, {0})
    /\ ret = [invocation |-> 0, requested |-> 0, algorithm |-> "DiverseCF",
              cfs |-> <<>>, initialized |-> FALSE]

(* Lines 262-318: the call is entered with total_CFs and algorithm, and    *)
(* population_size is set from total_CFs.                                  *)
Invoke ==
    /\ pc \in {"start", "INITIALIZED"}
    /\ ret.invocation < MaxInvocations
    /\ \E requested \in 0..MaxCFs, algorithm \in {"DiverseCF", "RandomInitCF"} :
          /\ algorithm = "RandomInitCF" => requested \in 0..MaxRandomInits
          /\ population_size' = PopFactor * requested
          /\ ret' = [ret EXCEPT !.invocation = @ + 1, !.requested = requested,
                                !.algorithm = algorithm, !.initialized = FALSE]
    /\ pc' = "params"
    /\ population' = <<>>
    /\ UNCHANGED <<x1, features_to_vary, mdl, desired_class, checkers, total_CFs,
                   maxiterations, thresh, conformance_penalty, activity_origin_position,
                   iterations, previous_best_loss, current_best_loss, stop_cnt, cfs_preds,
                   new_generation_1, new_generation_2, conformance_score, result>>

(* do_param_initializations, lines 245-250, with do_cf_initializations     *)
(* when it is called, and line 745.                                        *)
do_param_initializations ==
    /\ pc = "params"
    /\ IF Len(ret.cfs) # ret.requested
       THEN LET T == IF ret.algorithm = "RandomInitCF" THEN 1 ELSE ret.requested
                cands == KD_tree_output(mdl, desired_class,
                                        MinOf({Len(data_df), population_size * T}))
            IN  /\ total_CFs' = T
                /\ \E init_cfs \in
                         do_random_init(population_size, mdl, desired_class,
                                        features_to_vary, x1)
                         \cup do_KD_init(population_size, cands, mdl, desired_class,
                                         features_to_vary, x1) :
                      /\ ret' = [ret EXCEPT !.cfs = init_cfs, !.initialized = TRUE]
                      /\ population' = init_cfs
       ELSE /\ total_CFs' = ret.requested
            /\ population' = ret.cfs
            /\ ret' = ret
    /\ pc' = "INITIALIZED"
    /\ UNCHANGED <<x1, features_to_vary, mdl, desired_class, checkers, population_size,
                   maxiterations, thresh, conformance_penalty, activity_origin_position,
                   iterations, previous_best_loss, current_best_loss, stop_cnt, cfs_preds,
                   new_generation_1, new_generation_2, conformance_score, result>>

NextReuse == Invoke \/ do_param_initializations

SpecReuse == InitReuse /\ [][NextReuse]_vars

----------------------------------------------------------------------------
(* compute_loss and the ranking of lines 772-773 on their own, under two   *)
(* settings of the weights that differ in diversity_weight and             *)
(* categorical_penalty only.                                               *)

InitLoss ==
    /\ InitWith(VarySets, {0}, {0}, {0})
    /\ ret = 0
    /\ total_CFs = 0
    /\ Len(checkers) > 1

ChooseLossInput ==
    /\ pc = "start"
    /\ \E n \in 1..MaxCase :
          /\ population' \in [1..n -> UniqueRows]
          /\ conformance_score' \in [1..n -> {-(One \div 4), One}]
    /\ \E sw \in {0, sparsity_weight}, dw \in {One}, cp \in {One} :
          ret' = [settings |->
                     << update_hyperparameters(proximity_weight, sw, plausibility_weight,
                                               One \div 2, One \div 10, conformance_weight),
                        update_hyperparameters(proximity_weight, sw, plausibility_weight,
                                               dw, cp, conformance_weight) >>,
                  population_fitness |-> <<>>]
    /\ pc' = "loss"
    /\ UNCHANGED <<config, iterations, previous_best_loss, current_best_loss, stop_cnt,
                   cfs_preds, new_generation_1, new_generation_2, result>>

(* Lines 772-773 under each of the two settings. *)
ComputeLoss ==
    /\ pc = "loss"
    /\ ret' = [ret EXCEPT !.population_fitness =
                  [k \in DOMAIN ret.settings |->
                      SortByLoss([i \in DOMAIN population |->
                          <<i, LossWith(ret.settings[k], mdl, population[i], x1, desired_class,
                                        conformance_score[i])>>])]]
    /\ pc' = "loss_done"
    /\ UNCHANGED <<config, loopvars, result>>

NextLoss == ChooseLossInput \/ ComputeLoss

SpecLoss == InitLoss /\ [][NextLoss]_vars

----------------------------------------------------------------------------
(* Mating Engine: the sequence-aware crossovers mate_1 and mate_2, and the  *)
(* choice of the crossover in the breeding loop (lines 792-804), on a data  *)
(* interface with two continuous features and two activity positions.       *)

MateInterface ==
    [feature_names |-> <<"amount", "duration", "prefix_1", "prefix_2">>,
     continuous_feature_names |-> {"amount", "duration"},
     feature_range |-> [amount |-> <<0, 1>>, duration |-> <<0, 1>>,
                        prefix_1 |-> {1, 2}, prefix_2 |-> {1, 2}]]

(* The rows of that interface. *)
MateIndividuals ==
    {<<a, d, p1, p2>> : a \in Grid(0, 1), d \in Grid(0, 1), p1 \in 0..2, p2 \in 0..2}

(* The row as the conformance checker reads it: the activity positions. *)
SequencePart(x) == <<x[1], x[3], x[4]>>

(* encoder.encode of a label. *)
encode(label) == IF label \in Labels THEN label_dict[label] ELSE 0

(* get_constraint_activities, lines 970-981. *)
get_constraint_activities(chk) ==
    LET unary == {k \in DOMAIN chk : supports_cardinality(chk[k].template)}
        binary == DOMAIN chk \ unary
        activations == {chk[k].attributes[1] : k \in unary \cup binary}
        targets == {chk[k].attributes[2] : k \in binary} \ activations
    IN  [activities |-> activations \cup targets, activations |-> activations, targets |-> targets]

(* child = original_query_df[original_query_df.isin(activities)]: the decoded *)
(* query value where it is one of the activities, NaN elsewhere.              *)
SeedFromQuery(di, query_instance, acts) ==
    [j \in DOMAIN di.feature_names |->
        IF IsPrefix(di.feature_names[j]) /\ decode(query_instance[j]) \in acts.activities
        THEN decode(query_instance[j]) ELSE "nan"]

(* The branches of a crossover: prob < 0.40, prob < 0.80, otherwise. *)
Branches == {"parent_1", "parent_2", "mutate"}

(* The features that are not activity positions. *)
NonSequenceIndexes(di) == {j \in DOMAIN di.feature_names : ~IsPrefix(di.feature_names[j])}

(* prob = random.random() before the loop over the features (lines 597 and   *)
(* 647): one draw, so one branch, for all features of the child.             *)
SharedBranch(di) == {[j \in NonSequenceIndexes(di) |-> b] : b \in Branches}

(* prob = random.random() inside the loop over the features (line 707): a    *)
(* branch for each feature.                                                  *)
PerFeatureBranch(di) == [NonSequenceIndexes(di) -> Branches]

(* A feature that is not an activity position, lines 612-629 and 673-690. *)
NonSequenceGene(di, j, k1, k2, ftv, query_instance, branch) ==
    LET feat_name == di.feature_names[j] IN
    IF branch = "parent_1" THEN {k1[j]}
    ELSE IF branch = "parent_2" THEN {k2[j]}
    ELSE IF feat_name \in ftv
         THEN IF feat_name \in di.continuous_feature_names
              THEN Grid(di.feature_range[feat_name][1], di.feature_range[feat_name][2])
              ELSE di.feature_range[feat_name]
         ELSE {query_instance[j]}

(* An unseeded activity position that takes a parent's value whatever it is. *)
ActivityGene_2_AnyParent(j, k1, k2, seed, acts) ==
    IF seed[j] # "nan" THEN {seed[j]} ELSE {decode(k1[j]), decode(k2[j])}

(* An activity position in mate_2, lines 603-611: the decoded label. *)
ActivityGene_2(j, k1, k2, seed, acts) ==
    IF seed[j] # "nan" THEN {seed[j]}
    ELSE IF decode(k1[j]) \notin acts.activations THEN {decode(k1[j])}
    ELSE IF decode(k2[j]) \notin acts.activations THEN {decode(k2[j])}
    ELSE {l \in Labels : l \notin acts.activations}

(* An activity position in mate_1, lines 664-671: the decoded label. *)
ActivityGene_1(j, k1, k2, seed, acts) ==
    IF decode(k1[j]) \in acts.activities THEN {decode(k2[j])}
    ELSE IF decode(k2[j]) \in acts.activities THEN {decode(k1[j])}
    ELSE {l \in Labels : l \notin acts.activities}

(* The children a sequence-aware crossover can return, re-encoded, each with *)
(* the branches its non-sequence features took; none when np.random.choice   *)
(* is given no level to choose from (ValueError).                            *)
SequenceAwareChildren(di, k1, k2, ftv, query_instance, acts, ActivityGene(_, _, _, _, _)) ==
    LET seed == SeedFromQuery(di, query_instance, acts)
    IN  {draw \in SharedBranch(di) \X MateIndividuals :
            \A j \in DOMAIN di.feature_names :
                IF IsPrefix(di.feature_names[j])
                THEN \E l \in ActivityGene(j, k1, k2, seed, acts) : draw[2][j] = encode(l)
                ELSE draw[2][j] \in NonSequenceGene(di, j, k1, k2, ftv, query_instance, draw[1][j])}

mate_2(di, k1, k2, ftv, query_instance, acts) ==
    SequenceAwareChildren(di, k1, k2, ftv, query_instance, acts, ActivityGene_2)

mate_1(di, k1, k2, ftv, query_instance, acts) ==
    SequenceAwareChildren(di, k1, k2, ftv, query_instance, acts, ActivityGene_1)

(* One feature in plain crossover, lines 709-724. *)
PlainGene(di, j, k1, k2, ftv, query_instance, branch) ==
    LET feat_name == di.feature_names[j] IN
    IF branch = "parent_1" THEN {k1[j]}
    ELSE IF branch = "parent_2" THEN {k2[j]}
    ELSE IF feat_name \in ftv
         THEN IF feat_name \in di.continuous_feature_names
              THEN Grid(di.feature_range[feat_name][1], di.feature_range[feat_name][1])
              ELSE di.feature_range[feat_name]
         ELSE {query_instance[j]}

(* Plain crossover (lines 697-725) on the interface di: the children it can  *)
(* return, each with the branches its non-sequence features took.            *)
mate_plain(di, k1, k2, ftv, query_instance) ==
    {draw \in PerFeatureBranch(di) \X MateIndividuals :
        \A j \in DOMAIN di.feature_names :
            IF IsPrefix(di.feature_names[j])
            THEN \E branch \in Branches :
                    draw[2][j] \in PlainGene(di, j, k1, k2, ftv, query_instance, branch)
            ELSE draw[2][j] \in PlainGene(di, j, k1, k2, ftv, query_instance, draw[1][j])}

(* Lines 797-802: the crossover the breeding loop calls. *)
CrossoverPolicy(heuristic, adapted) ==
    IF adapted = "True" THEN "mate_2" ELSE "mate"

(* The children the crossover named policy can return, with their branches. *)
Offspring(policy, di, k1, k2, ftv, query_instance, acts) ==
    IF policy = "mate_2" THEN mate_2(di, k1, k2, ftv, query_instance, acts)
    ELSE IF policy = "mate_1" THEN mate_1(di, k1, k2, ftv, query_instance, acts)
    ELSE mate_plain(di, k1, k2, ftv, query_instance)

MateQueries == { <<0, 0, 0, 1>>, <<1, 0, 0, 0>> }
MateVarySets == { {"amount", "duration", "prefix_1"}, {"amount", "duration"} }
MateDeclModels ==
    { << Con("Existence", 0, <<"review">>), Con("Response", 0, <<"review", "approve">>) >>,
      << Con("Absence", 0, <<"review">>) >>,
      << Con("Response", 0, <<"review", "approve">>), Con("Response", 0, <<"approve", "review">>) >> }
Heuristics == {"None", "heuristic_1"}
Adapted == {"None", "True"}

(* Two distinct scored individuals, in np.unique order, that hold the query  *)
(* instance's value of every fixed feature.                                  *)
MateParents(ftv, query_instance) ==
    {<<k1, k2>> \in MateIndividuals \X MateIndividuals :
        /\ k1[1] = 0 /\ k1[2] = 0 /\ k2[1] = 1 /\ k2[2] = 1
        /\ \A j \in DOMAIN MateInterface.feature_names :
              MateInterface.feature_names[j] \notin ftv
                 => (k1[j] = query_instance[j] /\ k2[j] = query_instance[j])}

(* An iteration at the head of its breeding loop, with the arguments of      *)
(* find_counterfactuals that matter to breeding in ret.                      *)
InitMate ==
    /\ pc = "breed"
    /\ x1 \in MateQueries
    /\ features_to_vary \in MateVarySets
    /\ mdl = "clf_amount"
    /\ desired_class = 1
    /\ \E decl \in MateDeclModels : checkers = filter_declare_model(SequencePart(x1), decl)
    /\ total_CFs = 2
    /\ population_size = PopFactor * total_CFs
    /\ maxiterations = 1
    /\ thresh \in Threshs
    /\ conformance_penalty \in Penalties
    /\ activity_origin_position \in Positions
    /\ population \in MateParents(features_to_vary, x1)
    /\ iterations = 0
    /\ previous_best_loss = PosInf
    /\ current_best_loss = PosInf
    /\ stop_cnt = 0
    /\ cfs_preds = <<>>
    /\ new_generation_1 = population
    /\ new_generation_2 = <<>>
    /\ conformance_score = <<>>
    /\ final_cfs = <<>>
    /\ self_cfs_preds = <<>>
    /\ scanned = 0
    /\ optimization = "unread"
    /\ \E heuristic \in Heuristics, adapted \in Adapted :
          ret = [heuristic |-> heuristic, adapted |-> adapted, policies |-> <<>>,
                 branches |-> <<>>]

(* One pass of the for loop of lines 792-804 with the crossover chosen at    *)
(* lines 799-802.                                                            *)
BreedWithPolicy ==
    /\ pc = "breed"
    /\ Len(new_generation_2) < population_size - total_CFs
    /\ LET policy == CrossoverPolicy(ret.heuristic, ret.adapted)
           acts == get_constraint_activities(checkers)
       IN  \E idx1 \in ParentIndexes(population), idx2 \in ParentIndexes(population) :
              LET children == Offspring(policy, MateInterface, population[idx1 + 1],
                                        population[idx2 + 1], features_to_vary, x1, acts)
              IN  IF children = {}
                  THEN /\ pc' = "ValueError"
                       /\ new_generation_2' = new_generation_2
                       /\ ret' = [ret EXCEPT !.policies = Append(@, policy)]
                  ELSE /\ pc' = pc
                       /\ \E draw \in children :
                             /\ new_generation_2' = Append(new_generation_2, draw[2])
                             /\ ret' = [ret EXCEPT !.policies = Append(@, policy),
                                                   !.branches = draw[1]]
    /\ UNCHANGED <<config, population, iterations, previous_best_loss, current_best_loss,
                   stop_cnt, cfs_preds, new_generation_1, conformance_score, result>>

NextMate == BreedWithPolicy \/ Concatenate

SpecMate == InitMate /\ [][NextMate]_vars

----------------------------------------------------------------------------
(* Properties.                                                              *)

IteratingStates == {"score", "breed", "check"}

(* C1: after the breeding and concatenation step of every iteration the     *)
(* population holds at least population_size individuals.                   *)
C1_PopulationAtLeastPopulationSize ==
    (pc = "check" /\ total_CFs <= population_size) => Len(population) >= population_size

(* C2: at every stopping check the counter becomes 0 when the best loss     *)
(* moved by more than thresh or some elite's prediction misses the desired  *)
(* outcome, and grows by one otherwise; the loop breaks by stagnation       *)
(* exactly when the counter reaches 5, never below 5, and no iteration runs *)
(* once it is 5.                                                            *)
C2_StagnationCounter ==
    /\ [](stop_cnt \in 0..5)
    /\ [](pc = "CONVERGED" => stop_cnt = 5)
    /\ [](pc \in IteratingStates => stop_cnt <= 4)
    /\ [][ (pc \in {"INITIALIZED", "check"} /\ iterations < maxiterations /\ total_CFs > 0) =>
             LET moved == \/ previous_best_loss \in {PosInf, NegInf}
                          \/ current_best_loss \in {PosInf, NegInf}
                          \/ previous_best_loss - current_best_loss > thresh
                          \/ current_best_loss - previous_best_loss > thresh
                 satisfied == \A k \in DOMAIN cfs_preds :
                                 IF mdl = "reg_amount"
                                 THEN desired_range[1] <= cfs_preds[k] /\ cfs_preds[k] <= desired_range[2]
                                 ELSE cfs_preds[k] = desired_class
             IN  /\ stop_cnt' = IF moved \/ ~satisfied THEN 0 ELSE stop_cnt + 1
                 /\ (pc' = "CONVERGED") <=> (stop_cnt' = 5)
                 /\ (pc' = "score") <=> (stop_cnt' <= 4) ]_vars

(* A run that breaks by stagnation. *)
C2_Witness == pc = "CONVERGED" /\ stop_cnt = 5 /\ iterations < maxiterations

(* C3: the loop leaves its iterating states only into CONVERGED or          *)
(* MAX_ITERS_REACHED.                                                       *)
C3_LeavesIteratingOnlyByStoppingRule ==
    [][ (pc \in IteratingStates /\ pc' \notin IteratingStates)
           => pc' \in {"CONVERGED", "MAX_ITERS_REACHED"} ]_vars

(* The validity predicate applied to one row of the population. *)
PassesValidity(row) == is_cf_valid(mdl, desired_class, predict_fn_scores(mdl, row))

(* The rows of the first n population members that pass the validity predicate. *)
ValidAmong(n) == SelectSeq(SubSeq(population, 1, n), PassesValidity)

(* C4: the result is the valid rows of the population in index order, cut   *)
(* at total_CFs; the scan stops at the row that completes the result or at  *)
(* the end of the population; an incomplete result still ends in DONE.      *)
C4_ResultSelector ==
    /\ Len(final_cfs) <= total_CFs
    /\ \A k \in DOMAIN final_cfs : PassesValidity(final_cfs[k])
    /\ pc = "FILTERING" => final_cfs = ValidAmong(scanned)
    /\ pc = "DONE" =>
          LET last == MinOf({population_size, Len(population)})
          IN  /\ final_cfs = Take(ValidAmong(last), total_CFs)
              /\ Len(self_cfs_preds) = Len(final_cfs)
              /\ IF Len(final_cfs) = total_CFs /\ scanned < last
                 THEN /\ ValidAmong(scanned + 1) = final_cfs
                      /\ (total_CFs > 0 => ValidAmong(scanned) # final_cfs)
                 ELSE scanned = last

(* A finished scan that found fewer valid rows than requested. *)
C4_Witness ==
    /\ pc = "DONE"
    /\ Len(final_cfs) > 0 /\ Len(final_cfs) < total_CFs
    /\ scanned = Len(population)

(* C5: every two rows of the result have distinct feature vectors. *)
C5_ResultRowsDistinct ==
    pc = "DONE" => \A i, j \in DOMAIN final_cfs : i # j => final_cfs[i] # final_cfs[j]

(* C6: for a classifier the class recorded with every returned row is the   *)
(* desired class.                                                           *)
C6_RecordedClassIsDesired ==
    (pc = "DONE" /\ model_type(mdl) = "Classifier")
        => \A k \in DOMAIN self_cfs_preds : self_cfs_preds[k] = desired_class

(* C7: every continuous feature value of every individual of the population *)
(* lies inside the interval permitted_range leaves for the feature.         *)
C7_ContinuousValuesInPermittedRange ==
    pc \notin {"sparsity", "sparsity_done", "conformance", "conformance_done"} =>
        \A i \in DOMAIN population : \A j \in continuous_feature_indexes :
            /\ feature_range[feature_names[j]][1] <= population[i][j]
            /\ population[i][j] <= feature_range[feature_names[j]][2]

(* C8 as stated: the sparsity loss is the number of features whose values   *)
(* differ from the query instance's, fractional differences included, over  *)
(* the number of features.                                                  *)
C8_SparsityCountsEveryDifference ==
    pc = "sparsity_done" =>
        ret * number_of_features
            = One * Cardinality({j \in 1..number_of_features : population[1][j] # x1[j]})

(* The integer part of a feature value. *)
Truncated(j, v) == IF feature_names[j] = "amount" THEN (v - (v % CUnit)) \div CUnit ELSE v

(* C8 amended: the sparsity loss is the number of features whose integer    *)
(* parts differ from the query instance's, over the number of features; it  *)
(* is 0 for the query instance itself.                                      *)
C8_SparsityCountsTruncatedDifferences ==
    pc = "sparsity_done" =>
        /\ ret * number_of_features
              = One * Cardinality({j \in 1..number_of_features :
                                      Truncated(j, population[1][j]) # Truncated(j, x1[j])})
        /\ population[1] = x1 => ret = 0

(* A candidate with a fractional difference in the continuous feature and a *)
(* difference in one categorical feature: the loss is 1/3.                  *)
C8_Witness ==
    /\ pc = "sparsity_done"
    /\ population[1][1] # x1[1]
    /\ Truncated(1, population[1][1]) = Truncated(1, x1[1])
    /\ population[1][2] # x1[2]
    /\ population[1][3] = x1[3]
    /\ 3 * ret = One

(* C9: the scorer returns, and every score it returns lies in [-penalty, 1]. *)
C9_ScoreDefinedAndInRange ==
    /\ pc # "ZeroDivisionError"
    /\ pc = "conformance_done" =>
          /\ Len(conformance_score) = Len(population)
          /\ \A i \in DOMAIN conformance_score :
                -conformance_penalty <= conformance_score[i] /\ conformance_score[i] <= One

(* Position of the tracked activity in the decoded trace of population member i. *)
TrackedIndex(i) == find_activity_position_by_name(TraceOf(population[i]), activity_origin_name)

(* The penalty applies to population member i. *)
PenaltyApplies(i) == TrackedIndex(i) = activity_origin_position \/ TrackedIndex(i) = -1

(* Constraints of the working model that member i does not violate. *)
Held(i) == {k \in DOMAIN checkers : CheckState(checkers[k], TraceOf(population[i])) # "VIOLATED"}

(* C10: each returned score is the raw score minus the penalty, taken once, *)
(* when the tracked activity sits at the reference position or is absent,   *)
(* and the raw score itself otherwise; no constraint held gives 0 minus the *)
(* penalty if it applies; all held and the activity relocated gives 1; with *)
(* a positive penalty a row with the activity at the reference position     *)
(* scores below a row with equal raw score that has it elsewhere.           *)
C10_PenaltyOnce ==
    pc = "conformance_done" =>
        /\ \A i \in DOMAIN population :
              /\ conformance_score[i] * Len(checkers)
                    = One * Cardinality(Held(i))
                      - (IF PenaltyApplies(i) THEN conformance_penalty ELSE 0) * Len(checkers)
              /\ (Held(i) = {} /\ PenaltyApplies(i)) => conformance_score[i] = 0 - conformance_penalty
              /\ (Held(i) = {} /\ ~PenaltyApplies(i)) => conformance_score[i] = 0
              /\ (Held(i) = DOMAIN checkers /\ ~PenaltyApplies(i)) => conformance_score[i] = One
        /\ \A i, j \in DOMAIN population :
              (/\ conformance_penalty > 0
               /\ Cardinality(Held(i)) = Cardinality(Held(j))
               /\ TrackedIndex(i) = activity_origin_position
               /\ TrackedIndex(j) \notin {activity_origin_position, -1})
              => conformance_score[i] < conformance_score[j]

(* Two rows with equal raw score, one with the activity at the reference    *)
(* position and one with it moved, under a positive penalty.                *)
C10_Witness ==
    /\ pc = "conformance_done"
    /\ conformance_penalty > 0
    /\ Len(population) = 2
    /\ Cardinality(Held(1)) = Cardinality(Held(2))
    /\ TrackedIndex(1) = activity_origin_position
    /\ TrackedIndex(2) \notin {activity_origin_position, -1}
    /\ conformance_score[1] < conformance_score[2]

(* The rows of a sequence are pairwise different. *)
NoRepeats(rows) == \A i, j \in DOMAIN rows : i # j => rows[i] # rows[j]

(* C11: deduplicating a population without repeated rows returns the same  *)
(* set of individuals, as many as before, and deduplicating the result of  *)
(* a deduplication returns that result.                                    *)
C11_DeduplicationIdempotent ==
    /\ pc = "unique_once" =>
          /\ Range(ret) = Range(population)
          /\ NoRepeats(ret)
          /\ NoRepeats(population) => Len(ret) = Len(population)
    /\ pc = "unique_twice" => ret = population

(* A second deduplication of two rows that differ by a fraction in the       *)
(* continuous feature only.                                                 *)
C11_Witness ==
    /\ pc = "unique_twice"
    /\ Len(ret) = 2
    /\ ret = population
    /\ ret[1][1] + 1 = ret[2][1]
    /\ ret[1][1] % CUnit = 0
    /\ ret[1][2] = ret[2][2]

(* What an invocation exposes: its position, its populations, counters     *)
(* and results, and the generators it draws from.                          *)
Trace(st) ==
    <<st.pc, st.py, st.np, st.population, st.stop_cnt, st.iterations,
      st.previous_best_loss, st.current_best_loss, st.cfs_preds,
      st.new_generation_1, st.new_generation_2, st.final_cfs, st.self_cfs_preds>>

RetainedCandidate(x) ==
    /\ is_cf_valid(mdl, desired_class, predict_fn_scores(mdl, x))
    /\ \A j \in DOMAIN feature_names :
          LET feature == feature_names[j] IN
          IF feature \notin features_to_vary THEN x[j] = x1[j]
          ELSE feature \in categorical_feature_names => x[j] \in ret.ranges[feature]

Representable(interval) == interval[1] % CUnit = 0 /\ interval[2] % CUnit = 0

UnsatisfiableValidity ==
    \A x \in random_inits(ret.ranges, features_to_vary, x1) :
        ~is_cf_valid(mdl, desired_class, predict_fn_scores(mdl, x))

(* C14: when the validity predicate is unsatisfiable over the configured   *)
(* ranges, do_random_init does not draw batches forever: the call ends.    *)
C14_RandomInitEnds == (pc = "start" /\ UnsatisfiableValidity) ~> (pc # "start")

(* The rows do_KD_init can build from the candidate rows it is handed. *)
BuiltFromCandidates ==
    LET cands == KD_tree_output(mdl, desired_class,
                                MinOf({Len(data_df), population_size * total_CFs}))
    IN  UNION {KDRowFrom(1, cands[kx], features_to_vary, x1) : kx \in DOMAIN cands}

(* C15: every individual of the initial population that is not a random    *)
(* top-up is built from a candidate row by the keep, fall back or draw     *)
(* rule, also when there are fewer candidate rows than population_size.    *)
C15_PlacedRowsBuiltFromCandidates ==
    pc = "INITIALIZED" =>
        \A i \in DOMAIN population :
            \/ population[i] \in BuiltFromCandidates
            \/ population[i] \in ValidDraws(mdl, desired_class, features_to_vary, x1)

(* C16: in every invocation that requests counterfactuals, a later one on  *)
(* the same explainer included, the population the loop starts from was    *)
(* created by the Initializer during that invocation and holds exactly     *)
(* population_size individuals.                                            *)
C16_StartingPopulationIsFresh ==
    (pc = "INITIALIZED" /\ ret.requested > 0)
        => ret.initialized /\ Len(population) = population_size

(* The exceptions that end find_counterfactuals. *)
Raised == {"SystemError", "IndexError", "ZeroDivisionError"}

TotalLoss(hp, i) ==
    LET x == population[i]
        proximity == IF hp.proximity_weight = 0 \/ Cardinality(continuous_feature_names) < 2
                     THEN 0 ELSE compute_proximity_loss(x, x1)
        sparsity == IF hp.sparsity_weight = 0 THEN 0 ELSE compute_sparsity_loss(x, x1)
    IN  compute_yloss(mdl, x, desired_class)
        + (hp.proximity_weight * proximity) \div One
        + (hp.sparsity_weight * sparsity) \div One
        + (hp.conformance_weight * (One - conformance_score[i])) \div One
        + (hp.plausibility_weight * compute_plausibility(x, x1)) \div One

C19_StopFollowsScoring == pc = "CONVERGED" => new_generation_2 = <<>>

(* C19, amended: an iteration runs stopping check, deduplication and       *)
(* scoring with elite selection, breeding, concatenation, in this order;   *)
(* the stopping check reads the best losses and elite predictions the      *)
(* previous iterations left and changes none of them, and on a stagnation  *)
(* stop the population handed on is the last scoring's elites followed by  *)
(* the offspring bred after it.                                            *)
C19_StopCheckPrecedesScoring ==
    [][/\ pc \in {"INITIALIZED", "check"} =>
             /\ pc' \in {"score", "CONVERGED", "MAX_ITERS_REACHED", "NOT_ITERATED"}
             /\ <<population, previous_best_loss, current_best_loss, cfs_preds>>'
                   = <<population, previous_best_loss, current_best_loss, cfs_preds>>
       /\ pc = "score" => pc' \in {"breed"} \cup Raised
       /\ pc = "breed" => pc' \in {"breed", "check"}
       /\ pc' = "CONVERGED" =>
             /\ Len(new_generation_2) = population_size - total_CFs
             /\ population' = new_generation_1 \o new_generation_2
             /\ cfs_preds' = ElitePreds(new_generation_1)]_vars

(* The search stopped on stagnation with a population that holds an        *)
(* offspring bred after the last scoring and equal to no elite.            *)
C19_Witness ==
    /\ pc = "CONVERGED"
    /\ \E k \in DOMAIN new_generation_2 :
          /\ population[Len(new_generation_1) + k] = new_generation_2[k]
          /\ \A e \in DOMAIN new_generation_1 : new_generation_1[e] # new_generation_2[k]

(* The fitness ranking of the iteration's population (lines 772-773). *)
Ranking ==
    SortByLoss(compute_loss(mdl, population, x1, desired_class, conformance_score))

(* The position of population member i in that ranking. *)
RankOf(i) == (CHOOSE r \in DOMAIN Ranking : Ranking[r][1] = i)

(* C20: every individual an offspring's parent is drawn from has a valid   *)
(* index and is in the best half of the population by loss: its loss is    *)
(* no greater than that of the individual ranked len/2 + 1.                *)
C20_ParentsFromBestHalf ==
    pc = "breed" =>
        \A idx \in ParentIndexes(population) :
            /\ idx + 1 \in DOMAIN population
            /\ Ranking[RankOf(idx + 1)][2] <= Ranking[(Len(population) \div 2) + 1][2]

(* The loss the iteration's scoring gave population member i. *)
ScoredLoss(i) == LossOf(mdl, population[i], x1, desired_class, conformance_score[i])

(* C21: the step that builds the next population puts the total_CFs          *)
(* lowest-loss individuals of the scored population, unmodified and in       *)
(* ascending loss order, into its first total_CFs positions.                 *)
C21_ElitesLeadNextPopulation ==
    [][(pc = "breed" /\ pc' = "check") =>
          \E elite \in [1..total_CFs -> DOMAIN population] :
             /\ \A k \in 1..total_CFs : population'[k] = population[elite[k]]
             /\ \A k \in 1..total_CFs : \A t \in 1..total_CFs : k # t => elite[k] # elite[t]
             /\ \A k \in 1..total_CFs : \A t \in 1..total_CFs :
                   k < t => ScoredLoss(elite[k]) <= ScoredLoss(elite[t])
             /\ \A i \in DOMAIN population :
                   i \notin Range(elite) =>
                      \A k \in 1..total_CFs : ScoredLoss(elite[k]) <= ScoredLoss(i)]_vars

(* The elites lead the next population whenever deduplication left at least *)
(* total_CFs individuals.                                                   *)
ElitesLeadWhenEnoughDistinct ==
    [][(pc = "breed" /\ pc' = "check" /\ Len(population) >= total_CFs) =>
          \E elite \in [1..total_CFs -> DOMAIN population] :
             /\ \A k \in 1..total_CFs : population'[k] = population[elite[k]]
             /\ \A k \in 1..total_CFs : \A t \in 1..total_CFs : k # t => elite[k] # elite[t]
             /\ \A k \in 1..total_CFs : \A t \in 1..total_CFs :
                   k < t => ScoredLoss(elite[k]) <= ScoredLoss(elite[t])
             /\ \A i \in DOMAIN population :
                   i \notin Range(elite) =>
                      \A k \in 1..total_CFs : ScoredLoss(elite[k]) <= ScoredLoss(i)]_vars

(* The values section 4.5 lets the mutate branch give gene j: the whole      *)
(* [min, max] range of a variable continuous feature, the levels of a        *)
(* variable categorical feature, the query instance's value of a fixed one.  *)
FreshValues(j, ftv, query_instance) ==
    LET feat_name == feature_names[j] IN
    IF feat_name \in ftv
    THEN IF feat_name \in continuous_feature_names
         THEN Grid(feature_range[feat_name][1], feature_range[feat_name][2])
         ELSE feature_range[feat_name]
    ELSE {query_instance[j]}

(* C22: the children plain crossover can give two parents are exactly the    *)
(* rows whose every feature, chosen independently of the others, is parent   *)
(* 1's value, parent 2's value, or a fresh value: any value of the range of  *)
(* a variable continuous feature, any level of a variable categorical        *)
(* feature, the query instance's value of a fixed feature.                   *)
C22_PlainCrossoverValues ==
    pc = "breed" =>
        \A idx1 \in ParentIndexes(population), idx2 \in ParentIndexes(population) :
            LET k1 == population[idx1 + 1]
                k2 == population[idx2 + 1]
            IN  mate(k1, k2, features_to_vary, x1)
                   = {child \in Individuals :
                         \A j \in DOMAIN feature_names :
                             child[j] \in {k1[j], k2[j]} \cup FreshValues(j, features_to_vary, x1)}

(* The crossovers of section 4.5: plain, sequence-aware variant A,           *)
(* sequence-aware variant B.                                                 *)
Policies == {"mate", "mate_1", "mate_2"}

(* C23: each of the three crossovers is chosen by some configuration of the  *)
(* search, and a breeding loop breeds all its offspring with the crossover   *)
(* its configuration chooses.                                                *)
C23_EveryPolicySelectable ==
    pc = "check" =>
        /\ \A policy \in Policies :
              \E heuristic \in Heuristics, adapted \in Adapted :
                 CrossoverPolicy(heuristic, adapted) = policy
        /\ \A k \in DOMAIN ret.policies :
              ret.policies[k] = CrossoverPolicy(ret.heuristic, ret.adapted)

(* No offspring is bred by variant A, and one search uses one crossover. *)
VariantANeverBreeds ==
    \A k \in DOMAIN ret.policies :
        ret.policies[k] # "mate_1" /\ ret.policies[k] = ret.policies[1]

(* The activations and targets of the declarative model of the search. *)
Activations == get_constraint_activities(checkers).activations
Targets == get_constraint_activities(checkers).targets

(* C24: in a child of variant B every activity position holds the query      *)
(* instance's decoded value exactly when that value is an activation or a    *)
(* target; otherwise it holds parent 1's value if that is no activation,     *)
(* else parent 2's value if that is no activation, else some level of the    *)
(* feature that is no activation; an unseeded position never holds an        *)
(* activation.                                                               *)
C24_VariantBActivityPositions ==
    [][(Len(ret.policies') > Len(ret.policies) /\ Len(new_generation_2') > Len(new_generation_2)
        /\ ret.policies'[Len(ret.policies')] = "mate_2") =>
          LET child == new_generation_2'[Len(new_generation_2')] IN
          \E p1 \in DOMAIN population, p2 \in DOMAIN population :
             \A j \in DOMAIN MateInterface.feature_names :
                IsPrefix(MateInterface.feature_names[j]) =>
                   LET q == decode(x1[j])
                       l1 == decode(population[p1][j])
                       l2 == decode(population[p2][j])
                   IN  IF q \in Activations \cup Targets
                       THEN child[j] = x1[j]
                       ELSE /\ decode(child[j]) \notin Activations
                            /\ IF l1 \notin Activations THEN child[j] = population[p1][j]
                               ELSE IF l2 \notin Activations THEN child[j] = population[p2][j]
                               ELSE decode(child[j]) \in Labels]_vars

(* Variant B bred a child at an activity position the query instance does    *)
(* not seed and where both individuals of the population hold an activation: *)
(* the child holds a level that is no activation there, and the query        *)
(* instance's value at a seeded position.                                    *)
C24_Witness ==
    /\ ret.policies # <<>>
    /\ ret.policies[1] = "mate_2"
    /\ Len(new_generation_2) >= 1
    /\ decode(x1[3]) \notin Activations \cup Targets
    /\ \A p \in DOMAIN population : decode(population[p][3]) \in Activations
    /\ decode(new_generation_2[1][3]) \in Labels \ Activations
    /\ decode(x1[4]) \in Targets
    /\ new_generation_2[1][4] = x1[4]

(* C25: when a sequence-aware crossover breeds a child, every assignment of  *)
(* the parent-1 / parent-2 / mutate branches to the non-sequence features    *)
(* can be the one the child is bred with: the branch of one feature does not *)
(* bind the branch of another.                                               *)
C25_NonSequenceBranchesIndependent ==
    (/\ pc = "breed"
     /\ Len(new_generation_2) >= 1
     /\ CrossoverPolicy(ret.heuristic, ret.adapted) \in {"mate_1", "mate_2"}
     /\ ENABLED (BreedWithPolicy /\ pc' = "breed")) =>
        \A branches \in PerFeatureBranch(MateInterface) :
            ENABLED (BreedWithPolicy /\ pc' = "breed" /\ ret'.branches = branches)

(* The non-sequence features of a child of a sequence-aware crossover all    *)
(* took the same branch, and each single branch can be taken.                *)
SequenceAwareBranchShared ==
    /\ (ret.policies # <<>> /\ ret.policies[1] \in {"mate_1", "mate_2"} /\ ret.branches # <<>>)
          => ret.branches \in SharedBranch(MateInterface)
    /\ (/\ pc = "breed"
        /\ CrossoverPolicy(ret.heuristic, ret.adapted) \in {"mate_1", "mate_2"}
        /\ ENABLED (BreedWithPolicy /\ pc' = "breed")) =>
           \A branches \in SharedBranch(MateInterface) :
               ENABLED (BreedWithPolicy /\ pc' = "breed" /\ ret'.branches = branches)

(* The position penalty applies to row x: its tracked activity is absent or *)
(* stands at the reference position.                                        *)
Penalized(x) ==
    LET position == find_activity_position_by_name(TraceOf(x), activity_origin_name)
    IN  position = activity_origin_position \/ position = -1

(* The conformance score of row x under the working model of the search:   *)
(* the share of its constraints x does not violate, less the penalty.      *)
RowConformance(x) ==
    (Cardinality({k \in DOMAIN checkers : CheckState(checkers[k], TraceOf(x)) # "VIOLATED"}) * One)
        \div Len(checkers)
    - (IF Penalized(x) THEN conformance_penalty ELSE 0)

(* C26: with the 'filtering' mode the step after the loop recomputes the    *)
(* conformance of the final population and keeps, in order, exactly the     *)
(* rows that score more than 0.99, so every returned counterfactual scores  *)
(* more than 0.99 and none is penalized; without the mode the step removes  *)
(* no row of the final population.                                          *)
C26_FilteringKeepsConformantOnly ==
    [][/\ (LoopExited /\ pc' = "FILTERING" /\ optimization' = "filtering") =>
             /\ population' = SelectSeq(population, LAMBDA x : 100 * RowConformance(x) > 99 * One)
             /\ conformance_score' = [i \in DOMAIN population |-> RowConformance(population[i])]
       /\ (LoopExited /\ optimization' # "filtering") =>
             (pc' = "FILTERING" /\ population' = population)
       /\ optimization' = "filtering" =>
             \A k \in DOMAIN final_cfs' :
                 /\ 100 * RowConformance(final_cfs'[k]) > 99 * One
                 /\ ~Penalized(final_cfs'[k])]_vars

(* A search with the 'filtering' mode returned a counterfactual after the   *)
(* filter had removed a penalized row of the final population.              *)
C26_Witness ==
    /\ pc = "DONE"
    /\ optimization = "filtering"
    /\ final_cfs # <<>>
    /\ iterations >= 1
    /\ Len(population) < Len(new_generation_1) + Len(new_generation_2)
    /\ \E k \in DOMAIN new_generation_2 : Penalized(new_generation_2[k])

(* Row x holds the query instance's value of every feature of names that is *)
(* not in features_to_vary.                                                 *)
HoldsFixed(names, x) ==
    \A j \in DOMAIN names : names[j] \notin features_to_vary => x[j] = x1[j]

(* C27: every individual of every generation, from the initial population   *)
(* on, elite or offspring, holds the query instance's value of every        *)
(* feature that is not in features_to_vary.                                 *)
C27_FixedFeaturesHeld ==
    \A x \in Range(population) \cup Range(new_generation_1) \cup Range(new_generation_2)
               \cup Range(final_cfs) :
        HoldsFixed(feature_names, x)

(* Offspring bred by plain crossover or variant B from individuals that     *)
(* hold the query instance's fixed values hold them too.                    *)
OffspringHoldFixed ==
    \A x \in Range(population) \cup Range(new_generation_2) :
        HoldsFixed(MateInterface.feature_names, x)

(* Variant A keeps the fixed values of such parents. *)
VariantAHoldsFixed ==
    pc = "breed" =>
        \A draw \in mate_1(MateInterface, population[1], population[2], features_to_vary, x1,
                           get_constraint_activities(checkers)) :
            HoldsFixed(MateInterface.feature_names, draw[2])

(* C28: in every iteration of every search the offspring count              *)
(* population_size - total_CFs is strictly positive, and the error for a    *)
(* total_CFs greater than the population size is never raised.              *)
C28_OffspringCountPositive ==
    /\ pc \in {"score", "breed"} => population_size - total_CFs > 0
    /\ pc # "SystemError"

(* The error of line 812 is not raised, and an iteration with no offspring  *)
(* to breed has an empty population.                                        *)
FatalErrorNeverRaised ==
    /\ pc # "SystemError"
    /\ (pc = "score" /\ population_size - total_CFs <= 0) =>
           (population = <<>> /\ population_size = 0 /\ total_CFs = 1)

(* C29: the best loss of an iteration is never greater than the best loss   *)
(* of the iteration before it (infinite before the first), and an           *)
(* individual of that best loss is in the next population.                  *)
C29_BestLossNonIncreasing ==
    [][/\ (pc = "score" /\ pc' = "breed") =>
             /\ previous_best_loss' = current_best_loss
             /\ current_best_loss' <= current_best_loss
       /\ (pc = "breed" /\ pc' = "check") =>
             \E i \in DOMAIN population :
                /\ ScoredLoss(i) = current_best_loss
                /\ \A k \in DOMAIN population : ScoredLoss(i) <= ScoredLoss(k)
                /\ population[i] \in Range(population')]_vars

(* A later iteration found a best loss strictly below the finite best loss  *)
(* of the iteration before it.                                              *)
C29_Witness ==
    /\ pc = "breed"
    /\ iterations >= 1
    /\ IsFinite(previous_best_loss)
    /\ current_best_loss < previous_best_loss

(* The loop of find_counterfactuals is over: it was left, or it raised. *)
LoopOver == pc \notin {"start", "INITIALIZED", "check", "score", "breed"}

(* C30: the loop does not stop on stagnation before StopLimit + 1           *)
(* iterations have completed, the first two stopping checks reset the stop  *)
(* counter, and a search with maxiterations <= StopLimit + 1 and            *)
(* total_CFs > 0 runs exactly maxiterations iterations.                     *)
C30_NoEarlyStagnationStop ==
    /\ pc = "CONVERGED" => iterations >= StopLimit + 1
    /\ (pc = "score" /\ iterations <= 1) => stop_cnt = 0
    /\ (LoopOver /\ maxiterations <= StopLimit + 1 /\ total_CFs > 0) => iterations = maxiterations

(* No early stagnation stop, and the full count of iterations in the      *)
(* searches whose iterations raise nothing.                               *)
NoEarlyStopUnlessRaised ==
    /\ pc = "CONVERGED" => iterations >= StopLimit + 1
    /\ (pc = "score" /\ iterations <= 1) => stop_cnt = 0
    /\ (LoopOver /\ maxiterations <= StopLimit + 1 /\ total_CFs > 0 /\ iterations # maxiterations)
          => (pc \in Raised /\ pc # "SystemError")
====
